---- MODULE Spec2Model ----
(***************************************************************************)
(* Shared-ledger bot (src/main.py): the members and transactions tables,   *)
(* the recording dialogues (add debt, repay, split), the admin clear, and  *)
(* the bilateral netting of calculate_balances.                            *)
(*                                                                         *)
(* Amounts are Python floats.  A finite amount is modelled exactly, in     *)
(* thousandths of a currency unit (0.005 is 5, 100 is 100000); binary      *)
(* rounding of finite values is not modelled.  The special values nan and  *)
(* inf, which float() accepts as input text, are modelled with their IEEE  *)
(* arithmetic and comparisons.                                             *)
(***************************************************************************)
EXTENDS Integers, Sequences, FiniteSets, TLC

VARIABLES
    users,          \* table users: the set of rows [user_id, chat_id]
    transactions,   \* table transactions: sequence of rows, insertion order
    next_id,        \* next value of the SERIAL column transactions.id
    now,            \* the clock read by datetime.now(timezone.utc)
    conv,           \* ConversationHandler states: conv[handler][<<chat_id, user_id>>]
    user_data,      \* context.user_data of each user (one dict per user, all chats)
    chosen,         \* history: what the user picked in the current run of a dialogue
    started,        \* history: the number of dialogues entered since the bot started
    view,           \* what the last handled update made the bot show
    call,           \* Database.execute: the connection, and the call in progress
    threads,        \* the connections of the Database object, and the calls of
                    \* execute that the handler and the ping thread have in progress
    v2              \* debt_bot_v2.py: its tables, conversations, user_data, and the
                    \* call of calculate_balances in progress

vars == <<users, transactions, next_id, now, conv, user_data, chosen, started, view, call,
          threads, v2>>

----------------------------------------------------------------------------
(* Bounds of the model *)

MaxLog == 2         \* rows in the log of the balance-engine specification
MaxTx == 2          \* rows inserted by the dialogues since the bot started
MaxDialogs == 2     \* dialogues entered in the dialogue specification
MaxCalls == 2       \* calls of Database.execute in the execute specification
MaxConns == 3       \* connections that _connect() opens in the ping specification
MaxPings == 1       \* rounds of the ping loop in the ping specification
MaxRows == 3        \* rows of the log in the order specification
MantissaBits == 24  \* significant bits of a float of the model (a Python float has 53)
MaxLogV2 == 2       \* rows in the log of the specifications of debt_bot_v2.py

(* Program constants *)

Tolerance == 5              \* 0.005, the netting threshold of calculate_balances
MY_ADMIN_ID == 1            \* the configured admin id
Retries == 3                \* the default of the parameter retries of Database.execute
MatchThreshold == 10        \* 0.01, the threshold of the matching loop of debt_bot_v2.py

Users == {1, 2, 3}          \* Telegram user ids
Chats == {10, 20}           \* Telegram group chat ids

----------------------------------------------------------------------------
(* Python floats *)

Fin(n) == [k |-> "fin", v |-> n]
NaN == [k |-> "nan", v |-> 0]
Inf == [k |-> "inf", v |-> 0]
NegInf == [k |-> "ninf", v |-> 0]

IsNaN(a) == a.k = "nan"

\* the unit in the last place of a float of magnitude m >= 0: the least power of
\* two u with m < 2^MantissaBits * u
RECURSIVE ulp_of(_, _)
ulp_of(m, u) == IF m < (2 ^ MantissaBits) * u THEN u ELSE ulp_of(m, 2 * u)

\* the float nearest to the magnitude m, ties to the even mantissa
round_half_even(m) ==
    LET u == ulp_of(m, 1)
        q == m \div u
        r == m % u
    IN  IF 2 * r < u \/ (2 * r = u /\ q % 2 = 0) THEN q * u ELSE (q + 1) * u

\* the result of an arithmetic operation is rounded to a float
FRound(v) ==
    IF v < 2 ^ MantissaBits /\ 0 - v < 2 ^ MantissaBits THEN v
    ELSE IF v < 0 THEN 0 - round_half_even(0 - v)
    ELSE round_half_even(v)

\* a + b
FAdd(a, b) ==
    IF IsNaN(a) \/ IsNaN(b) THEN NaN
    ELSE IF a.k = "fin" /\ b.k = "fin" THEN Fin(FRound(a.v + b.v))
    ELSE IF a.k = "fin" THEN b
    ELSE IF b.k = "fin" THEN a
    ELSE IF a.k = b.k THEN a
    ELSE NaN

\* -a
FNeg(a) ==
    IF a.k = "fin" THEN Fin(0 - a.v)
    ELSE IF a.k = "inf" THEN NegInf
    ELSE IF a.k = "ninf" THEN Inf
    ELSE NaN

\* a - b
FSub(a, b) == FAdd(a, FNeg(b))

\* a > b (False when either is nan)
FGt(a, b) ==
    IF IsNaN(a) \/ IsNaN(b) THEN FALSE
    ELSE IF a.k = "fin" /\ b.k = "fin" THEN a.v > b.v
    ELSE IF a.k = "inf" THEN b.k # "inf"
    ELSE IF a.k = "ninf" THEN FALSE
    ELSE b.k = "ninf"

\* a <= b (False when either is nan)
FLe(a, b) == ~IsNaN(a) /\ ~IsNaN(b) /\ ~FGt(a, b)

\* a / n for a positive integer n, rounded to the nearest thousandth
FDiv(a, n) ==
    IF a.k = "fin" THEN Fin((2 * a.v + n) \div (2 * n)) ELSE a

----------------------------------------------------------------------------
(* Database (PostgreSQL tables users and transactions) *)

Row(id, chat_id, c_id, d_id, amount, comment, ts) ==
    [id |-> id, chat_id |-> chat_id, creditor_id |-> c_id, debtor_id |-> d_id,
     amount |-> amount, comment |-> comment, timestamp |-> ts]

\* INSERT INTO transactions ... : the table after add_transaction
\* variant: the new row takes the place of the newest row of the table
insert_over_last(txs, id, chat_id, c_id, d_id, amount, comment, ts) ==
    SubSeq(txs, 1, Len(txs) - 1) \o <<Row(id, chat_id, c_id, d_id, amount, comment, ts)>>

insert_transaction(txs, id, chat_id, c_id, d_id, amount, comment, ts) ==
    Append(txs, Row(id, chat_id, c_id, d_id, amount, comment, ts))

\* ORDER BY timestamp ASC of rows already in insertion order (insertion sort, stable)
RECURSIVE InsertByTimestamp(_, _)
InsertByTimestamp(sorted, r) ==
    IF sorted = <<>> THEN <<r>>
    ELSE IF Head(sorted).timestamp <= r.timestamp
         THEN <<Head(sorted)>> \o InsertByTimestamp(Tail(sorted), r)
         ELSE <<r>> \o sorted

RECURSIVE OrderByTimestamp(_)
OrderByTimestamp(rows) ==
    IF rows = <<>> THEN <<>>
    ELSE InsertByTimestamp(OrderByTimestamp(SubSeq(rows, 1, Len(rows) - 1)),
                           rows[Len(rows)])

\* SELECT ... FROM transactions WHERE chat_id=%s ORDER BY timestamp ASC
get_all_transactions(chat_id) ==
    OrderByTimestamp(SelectSeq(transactions, LAMBDA r: r.chat_id = chat_id))

\* SELECT user_id, first_name FROM users WHERE chat_id = %s, as a set: the query
\* has no ORDER BY, a loop over its result takes the rows in any order
members_of(tbl, chat_id) == {r.user_id : r \in {x \in tbl : x.chat_id = chat_id}}

get_group_members(chat_id) == members_of(users, chat_id)

\* variant: the rows of the chat are replaced by the new row
register_replacing(tbl, user_id, chat_id) ==
    {r \in tbl : r.chat_id # chat_id} \cup {[user_id |-> user_id, chat_id |-> chat_id]}

\* variant: the member is inserted for every chat
register_everywhere(tbl, user_id, chat_id) ==
    tbl \cup {[user_id |-> user_id, chat_id |-> c] : c \in {10, 20}}

\* INSERT INTO users ... ON CONFLICT (user_id, chat_id) DO NOTHING
register_user(tbl, user_id, chat_id) ==
    tbl \cup {[user_id |-> user_id, chat_id |-> chat_id]}

\* variant: DELETE FROM transactions, without the WHERE clause
clear_every_chat(txs, chat_id) == <<>>

\* variant: DELETE FROM transactions WHERE chat_id <> %s
clear_other_chats(txs, chat_id) == SelectSeq(txs, LAMBDA r: r.chat_id = chat_id)

\* DELETE FROM transactions WHERE chat_id = %s
clear_transactions_for_chat(txs, chat_id) ==
    SelectSeq(txs, LAMBDA r: r.chat_id # chat_id)

----------------------------------------------------------------------------
(* calculate_balances: bilateral netting *)

\* d[k] = v on a dict
Put(d, k, v) == [x \in DOMAIN d \cup {k} |-> IF x = k THEN v ELSE d[x]]

\* d.get(k, 0.0)
GetOrZero(d, k) == IF k \in DOMAIN d THEN d[k] ELSE Fin(0)

\* the key with creditor and debtor exchanged
debt_key_swapped(r) == <<r.creditor_id, r.debtor_id>>

\* the key under which a transaction is accumulated
debt_key(r) == <<r.debtor_id, r.creditor_id>>

\* direct_debts[(debtor_id, creditor_id)] = amount, forgetting what was accumulated
accumulate_overwrite(tot, key, amount) == Put(tot, key, amount)

\* direct_debts[(debtor_id, creditor_id)] += float(amount) on a defaultdict(float)
accumulate(tot, key, amount) == Put(tot, key, FAdd(GetOrZero(tot, key), amount))

\* the loop filling direct_debts; acc.keys is the dict's insertion order
RECURSIVE direct_debts(_, _)
direct_debts(rows, acc) ==
    IF rows = <<>> THEN acc
    ELSE LET r == Head(rows)
             key == debt_key(r)
         IN  direct_debts(Tail(rows),
                 [keys |-> IF key \in DOMAIN acc.tot THEN acc.keys
                           ELSE Append(acc.keys, key),
                  tot  |-> accumulate(acc.tot, key, r.amount)])

\* net_amount > 0.01
exceeds_tolerance_cent(net_amount) == FGt(net_amount, Fin(2 * Tolerance))

\* net_amount > 0.005
exceeds_tolerance(net_amount) == FGt(net_amount, Fin(Tolerance))

\* an iteration that records the gross amount of (d1, c1) without netting
net_pair_gross(net, dd, d1, c1) == Put(net, <<d1, c1>>, dd[<<d1, c1>>])

\* one iteration of the netting loop for the pair (d1, c1)
net_pair(net, dd, d1, c1) ==
    LET amount1 == dd[<<d1, c1>>]
        amount2 == GetOrZero(dd, <<c1, d1>>)
    IN  IF FGt(amount1, amount2)
        THEN IF exceeds_tolerance(FSub(amount1, amount2))
             THEN Put(net, <<d1, c1>>, FSub(amount1, amount2)) ELSE net
        ELSE IF FGt(amount2, amount1)
        THEN IF exceeds_tolerance(FSub(amount2, amount1))
             THEN Put(net, <<c1, d1>>, FSub(amount2, amount1)) ELSE net
        ELSE net

\* the loop over direct_debts.items() with processed_pairs
RECURSIVE net_debts(_, _, _, _)
net_debts(keys, dd, net, processed_pairs) ==
    IF keys = <<>> THEN net
    ELSE LET d1 == Head(keys)[1]
             c1 == Head(keys)[2]
         IN  IF Head(keys) \in processed_pairs
             THEN net_debts(Tail(keys), dd, net, processed_pairs)
             ELSE net_debts(Tail(keys), dd, net_pair(net, dd, d1, c1),
                            processed_pairs \cup {<<d1, c1>>, <<c1, d1>>})

\* calculate_balances on a list of rows: the mapping (debtor, creditor) -> net amount
balances_of(rows) ==
    LET dd == direct_debts(rows, [keys |-> <<>>, tot |-> <<>>])
    IN  net_debts(dd.keys, dd.tot, <<>>, {})

\* variant: a call that follows a balance report returns nothing
calculate_balances_once(chat_id) ==
    IF view.kind = "status" THEN <<>> ELSE balances_of(get_all_transactions(chat_id))

calculate_balances(chat_id) == balances_of(get_all_transactions(chat_id))

----------------------------------------------------------------------------
(* What the bot shows *)

MainMenu == [kind |-> "main_menu"]
StatusView(chat_id, nd) == [kind |-> "status", chat_id |-> chat_id, net_debts |-> nd]

----------------------------------------------------------------------------
(* Initial state: the bot starts on a database written by its earlier runs; *)
(* the conversations and user_data live in memory and start empty.          *)

Handlers == {"add_debt", "repay", "split", "clear"}
Keys == Chats \X Users
END == "END"
BalChat == CHOOSE c \in Chats: \A d \in Chats: c <= d
OtherChat == CHOOSE c \in Chats: c # BalChat

\* Database.__init__ has connected; no call of execute has been made
NoCall ==
    [pc |-> "idle", conn |-> "open", n |-> 0, i |-> 0, attempts |-> 0,
     query |-> [op |-> "none"], error |-> "none",
     before |-> [users |-> {}, transactions |-> <<>>]]

\* Database.__init__ has connected (connection 1); neither the handler nor the
\* ping thread is inside execute
NoThreads ==
    [conn |-> 1, alive |-> {1}, closed |-> {}, pending |-> [c \in 1..MaxConns |-> <<>>],
     pings |-> 0, calls |-> 0, handler |-> [pc |-> "idle"], ping |-> [pc |-> "idle"]]

\* debt_bot_v2.py after Database(DB_NAME) on a new file: empty tables, no dialogue
\* of a chat open, empty user_data, calculate_balances not called
HandlersV2 == {"add_debt", "repay"}

NoV2 ==
    [users |-> {}, transactions |-> <<>>, now |-> 0,
     conv |-> [h \in HandlersV2 |-> [chat_id \in Chats |-> END]],
     user_data |-> [u \in Users |-> <<>>],
     chosen |-> [h \in HandlersV2 |-> [chat_id \in Chats |-> <<>>]],
     started |-> 0,
     loop |-> [pc |-> "idle"],
     view |-> [kind |-> "none"]]

Members(chat_id, S) == {[user_id |-> u, chat_id |-> chat_id] : u \in S}

\* db2: the tables of debt_bot_v2.py
StartWith(db, db2) ==
    /\ users = db.users
    /\ transactions = db.transactions
    /\ next_id = Len(db.transactions) + 1
    /\ now = 0
    /\ conv = [h \in Handlers |-> [key \in Keys |-> END]]
    /\ user_data = [u \in Users |-> <<>>]
    /\ chosen = [h \in Handlers |-> [key \in Keys |-> <<>>]]
    /\ started = 0
    /\ view = [kind |-> "none"]
    /\ call = NoCall
    /\ threads = NoThreads
    /\ v2 = [NoV2 EXCEPT !.users = db2.users, !.transactions = db2.transactions]

Start(db) == StartWith(db, [users |-> {}, transactions |-> <<>>])

\* the three members of the first group registered earlier; no transaction
EmptyLedger ==
    [users |-> Members(BalChat, Users), transactions |-> <<>>]

Init == Start(EmptyLedger)

----------------------------------------------------------------------------
(* Balance engine on its own: rows are written as a recording dialogue     *)
(* writes them at its end, and the balance is requested.                   *)

BalAmounts == {Fin(5), Fin(10), Fin(40000), Fin(100000), NaN, Inf}

\* Database.add_transaction at the end of a recording dialogue, then the main menu
add_transaction(chat_id, c_id, d_id, amount, comment) ==
    /\ Len(transactions) < MaxLog
    /\ transactions' = insert_transaction(transactions, next_id, chat_id, c_id, d_id,
                                          amount, comment, now + 1)
    /\ next_id' = next_id + 1
    /\ now' = now + 1
    /\ view' = MainMenu
    /\ UNCHANGED <<users, conv, user_data, chosen, started, call, threads, v2>>

\* status_handler: the group balance report
status_handler(chat_id, user_id) ==
    /\ users' = register_user(users, user_id, chat_id)
    /\ view' = StatusView(chat_id, calculate_balances(chat_id))
    /\ UNCHANGED <<transactions, next_id, now, conv, user_data, chosen, started, call, threads, v2>>

NextBal ==
    \/ \E c_id \in Users: \E d_id \in Users \ {c_id}: \E amount \in BalAmounts:
           add_transaction(BalChat, c_id, d_id, amount, "")
    \/ \E user_id \in Users: status_handler(BalChat, user_id)

SpecBal == Init /\ [][NextBal]_vars

----------------------------------------------------------------------------
(* Properties of the balance report *)

\* the sum of the amounts that debtor a owes creditor b over the rows
RECURSIVE SumOwed(_, _, _)
SumOwed(rows, a, b) ==
    IF rows = <<>> THEN Fin(0)
    ELSE LET r == rows[Len(rows)]
             rest == SumOwed(SubSeq(rows, 1, Len(rows) - 1), a, b)
         IN  IF r.debtor_id = a /\ r.creditor_id = b THEN FAdd(rest, r.amount) ELSE rest

\* what a owes b minus what b owes a
Net(rows, a, b) == FSub(SumOwed(rows, a, b), SumOwed(rows, b, a))

Reported == view.kind = "status"
ReportRows == get_all_transactions(view.chat_id)
Direct(rows, a, b) ==
    \E i \in 1..Len(rows): {rows[i].debtor_id, rows[i].creditor_id} = {a, b}

\* C1: every entry of the balance report has a strictly positive amount, and no
\* two members have entries in both directions.
C1_PositiveOneDirection ==
    Reported =>
        \A p \in DOMAIN view.net_debts:
            /\ FGt(view.net_debts[p], Fin(0))
            /\ <<p[2], p[1]>> \notin DOMAIN view.net_debts

\* a report over a log with flows in both directions between two members
C1_Witness ==
    /\ Reported
    /\ \E a \in Users: \E b \in Users \ {a}:
           /\ FGt(SumOwed(ReportRows, a, b), Fin(0))
           /\ FGt(SumOwed(ReportRows, b, a), Fin(0))
           /\ <<a, b>> \in DOMAIN view.net_debts

\* C2: for every pair (a, b) the reported net debt is the sum of what a owes b
\* minus the sum of what b owes a: an entry "a owes b net" when the net is above the
\* tolerance, "b owes a -net" when it is below minus the tolerance, and no entry
\* when it is within the tolerance.
C2_NetSettlement ==
    Reported =>
        \A a \in Users: \A b \in Users:
            LET net == Net(ReportRows, a, b) IN
            /\ FGt(net, Fin(Tolerance)) =>
                   /\ <<a, b>> \in DOMAIN view.net_debts
                   /\ view.net_debts[<<a, b>>] = net
            /\ FGt(FNeg(net), Fin(Tolerance)) =>
                   /\ <<b, a>> \in DOMAIN view.net_debts
                   /\ view.net_debts[<<b, a>>] = FNeg(net)
            /\ (FLe(net, Fin(Tolerance)) /\ FLe(FNeg(net), Fin(Tolerance))) =>
                   /\ <<a, b>> \notin DOMAIN view.net_debts
                   /\ <<b, a>> \notin DOMAIN view.net_debts

\* a report where several rows of one direction were summed into the reported net
C2_Witness ==
    /\ Reported
    /\ \E a \in Users: \E b \in Users \ {a}:
           /\ Cardinality({i \in 1..Len(ReportRows):
                   ReportRows[i].debtor_id = a /\ ReportRows[i].creditor_id = b}) >= 2
           /\ <<a, b>> \in DOMAIN view.net_debts
           /\ view.net_debts[<<a, b>>] = Fin(15)

\* C4: the report has an entry between two members only if a transaction was
\* recorded directly between them; for the debts (creditor 1, debtor 2, 100) and
\* (creditor 2, debtor 3, 40) it is exactly {2 owes 1: 100, 3 owes 2: 40}.
ScenarioLog(rows) ==
    /\ Len(rows) = 2
    /\ \E i \in 1..2: /\ rows[i].creditor_id = 1 /\ rows[i].debtor_id = 2
                       /\ rows[i].amount = Fin(100000)
                       /\ rows[3 - i].creditor_id = 2 /\ rows[3 - i].debtor_id = 3
                       /\ rows[3 - i].amount = Fin(40000)

C4_OnlyDirectFlows ==
    Reported =>
        /\ \A p \in DOMAIN view.net_debts: Direct(ReportRows, p[1], p[2])
        /\ ScenarioLog(ReportRows) =>
               view.net_debts = (<<2, 1>> :> Fin(100000)) @@ (<<3, 2>> :> Fin(40000))

\* the report over the scenario's log
C4_Witness == Reported /\ ScenarioLog(ReportRows)

\* C5 as stated: the tolerance is 0.01; a net of at most 0.01 between two members
\* is not reported and a net above 0.01 is.
C5_ToleranceOneCent ==
    Reported =>
        \A a \in Users: \A b \in Users \ {a}:
            LET net == Net(ReportRows, a, b)
                entry == <<a, b>> \in DOMAIN view.net_debts
                             \/ <<b, a>> \in DOMAIN view.net_debts
            IN  /\ (FLe(net, Fin(10)) /\ FLe(FNeg(net), Fin(10))) => ~entry
                /\ (FGt(net, Fin(10)) \/ FGt(FNeg(net), Fin(10))) => entry

\* C5 amended: the tolerance is 0.005; a net of at most 0.005 between two members
\* is not reported and a net above 0.005 is.
C5_ToleranceHalfCent ==
    Reported =>
        \A a \in Users: \A b \in Users \ {a}:
            LET net == Net(ReportRows, a, b)
                entry == <<a, b>> \in DOMAIN view.net_debts
                             \/ <<b, a>> \in DOMAIN view.net_debts
            IN  /\ (FLe(net, Fin(Tolerance)) /\ FLe(FNeg(net), Fin(Tolerance))) => ~entry
                /\ (FGt(net, Fin(Tolerance)) \/ FGt(FNeg(net), Fin(Tolerance))) => entry

\* a report with one pair whose net is exactly 0.005 (absent) and another whose
\* net is exactly 0.01 (present)
C5_Witness ==
    /\ Reported
    /\ \E a \in Users: \E b \in Users \ {a}: \E c \in Users \ {a}: \E d \in Users \ {a, c}:
           /\ Net(ReportRows, a, b) = Fin(Tolerance)
           /\ <<a, b>> \notin DOMAIN view.net_debts
           /\ Net(ReportRows, c, d) = Fin(10)
           /\ <<c, d>> \in DOMAIN view.net_debts


----------------------------------------------------------------------------
(* The dialogues: what the users send *)

AmountTexts == {"abc", "0", "-5", "nan", "100,0"}
CommentTexts == {"lunch"}
RepaySentinel == "Pogashenie dolga"     \* the reserved comment of a repayment
ValueError == [k |-> "ValueError"]

\* float(text.replace(',', '.')) on the texts above
parse_float(text) ==
    CASE text = "100,0" -> Fin(100000)
      [] text = "0"     -> Fin(0)
      [] text = "-5"    -> Fin(0 - 5000)
      [] text = "nan"   -> NaN
      [] OTHER          -> ValueError

\* the amount check of the dialogues: float() succeeds and not (amount <= 0)
valid_amount(text) ==
    /\ parse_float(text) # ValueError
    /\ ~FLe(parse_float(text), Fin(0))

(* What the bot shows, continued *)

Nothing == [kind |-> "none"]
Prompt == [kind |-> "prompt"]
NumberError == [kind |-> "number_error"]
MembersWarning == [kind |-> "members_warning"]
Failed == [kind |-> "error"]            \* the handler raised: error_handler's reply
NotAdmin == [kind |-> "not_admin"]
ConfirmPrompt == [kind |-> "confirm_clear"]
Cleared == [kind |-> "cleared"]
ClearCancelled == [kind |-> "clear_cancelled"]

(* Dispatch: the handlers are tried in the order in which init_bot adds them, and a *)
(* ConversationHandler takes an update only if the state of (chat, user) has a     *)
(* handler or a fallback for it.                                                   *)

State(h, chat_id, user_id) == conv[h][<<chat_id, user_id>>]

Has(ud, k) == k \in DOMAIN ud

\* who takes a callback user_<uid>
button_handler(chat_id, user_id) ==
    IF State("add_debt", chat_id, user_id) \in {"SELECT_CREDITOR", "SELECT_DEBTOR"}
    THEN "add_debt"
    ELSE IF State("repay", chat_id, user_id) \in {"REPAY_SELECT_DEBTOR", "REPAY_SELECT_CREDITOR"}
    THEN "repay"
    ELSE IF State("split", chat_id, user_id) = "SPLIT_SELECT_PAYER" THEN "split"
    ELSE "none"

\* who takes a text message that is not a command
text_handler(chat_id, user_id) ==
    IF State("add_debt", chat_id, user_id) \in {"GET_AMOUNT", "GET_COMMENT"} THEN "add_debt"
    ELSE IF State("repay", chat_id, user_id) = "REPAY_GET_AMOUNT" THEN "repay"
    ELSE IF State("split", chat_id, user_id) \in {"SPLIT_GET_AMOUNT", "SPLIT_GET_COMMENT"}
    THEN "split"
    ELSE "none"

\* who takes /skip
skip_handler(chat_id, user_id) ==
    IF State("add_debt", chat_id, user_id) = "GET_COMMENT" THEN "add_debt"
    ELSE IF State("split", chat_id, user_id) = "SPLIT_GET_COMMENT" THEN "split"
    ELSE "none"

\* who takes the callback cancel, and /cancel before clear_handler is asked
cancel_handler(chat_id, user_id) ==
    IF State("add_debt", chat_id, user_id) # END THEN "add_debt"
    ELSE IF State("repay", chat_id, user_id) # END THEN "repay"
    ELSE IF State("split", chat_id, user_id) # END THEN "split"
    ELSE "none"

----------------------------------------------------------------------------
(* /start, /menu, back_to_menu *)

start_menu_command(chat_id, user_id) ==
    /\ users' = register_user(users, user_id, chat_id)
    /\ view' = MainMenu
    /\ UNCHANGED <<transactions, next_id, now, conv, user_data, chosen, started, call, threads, v2>>

(* The first step of a recording dialogue *)

\* variant: one member is enough
too_few_members_below_one(members) == Cardinality(members) < 1

\* len(members) < 2
too_few_members(members) == Cardinality(members) < 2

dialog_start(h, first_state, registers, chat_id, user_id) ==
    /\ State(h, chat_id, user_id) = END
    /\ users' = IF registers THEN register_user(users, user_id, chat_id) ELSE users
    /\ IF too_few_members(members_of(users', chat_id))
       THEN /\ view' = MembersWarning
            /\ UNCHANGED <<conv, user_data, chosen, started>>
       ELSE /\ started < MaxDialogs
            /\ started' = started + 1
            /\ user_data' = [user_data EXCEPT ![user_id] = Put(@, "dialog_message_id", "msg")]
            /\ conv' = [conv EXCEPT ![h][<<chat_id, user_id>>] = first_state]
            /\ chosen' = [chosen EXCEPT ![h][<<chat_id, user_id>>] = <<>>]
            /\ view' = Prompt
    /\ UNCHANGED <<transactions, next_id, now, call, threads, v2>>

add_debt_start(chat_id, user_id) ==
    dialog_start("add_debt", "SELECT_CREDITOR", TRUE, chat_id, user_id)

\* repay_start is not wrapped in group_only: it registers nobody
repay_start(chat_id, user_id) ==
    dialog_start("repay", "REPAY_SELECT_DEBTOR", FALSE, chat_id, user_id)

split_start(chat_id, user_id) ==
    dialog_start("split", "SPLIT_SELECT_PAYER", TRUE, chat_id, user_id)

(* A step that stores the pressed user button under a key of user_data.  The       *)
(* buttons are those of the group's members: the keyboards of other and of         *)
(* abandoned dialogues of the chat stay pressable by everyone.                     *)

select_step(h, from, to, field, what, chat_id, user_id, uid) ==
    /\ State(h, chat_id, user_id) = from
    /\ button_handler(chat_id, user_id) = h
    /\ uid \in get_group_members(chat_id)
    /\ user_data' = [user_data EXCEPT ![user_id] = Put(@, field, uid)]
    /\ IF Has(user_data[user_id], "dialog_message_id")
       THEN /\ conv' = [conv EXCEPT ![h][<<chat_id, user_id>>] = to]
            /\ chosen' = [chosen EXCEPT ![h][<<chat_id, user_id>>] = Put(@, what, uid)]
            /\ view' = Prompt
       ELSE /\ view' = Failed           \* KeyError: 'dialog_message_id'
            /\ UNCHANGED <<conv, chosen>>
    /\ UNCHANGED <<users, transactions, next_id, now, started, call, threads, v2>>

add_debt_select_creditor(chat_id, user_id, uid) ==
    select_step("add_debt", "SELECT_CREDITOR", "SELECT_DEBTOR", "creditor_id", "creditor",
                chat_id, user_id, uid)

add_debt_select_debtor(chat_id, user_id, uid) ==
    select_step("add_debt", "SELECT_DEBTOR", "GET_AMOUNT", "debtor_id", "debtor",
                chat_id, user_id, uid)

\* "who returns the debt?" is stored under debtor_id
repay_select_debtor(chat_id, user_id, uid) ==
    select_step("repay", "REPAY_SELECT_DEBTOR", "REPAY_SELECT_CREDITOR", "debtor_id", "payer",
                chat_id, user_id, uid)

\* "to whom?" is stored under creditor_id
repay_select_creditor(chat_id, user_id, uid) ==
    select_step("repay", "REPAY_SELECT_CREDITOR", "REPAY_GET_AMOUNT", "creditor_id", "receiver",
                chat_id, user_id, uid)

split_select_payer(chat_id, user_id, uid) ==
    select_step("split", "SPLIT_SELECT_PAYER", "SPLIT_GET_AMOUNT", "payer_id", "payer",
                chat_id, user_id, uid)

(* A step that reads the amount and stores it in user_data *)

amount_step(h, from, to, chat_id, user_id, text) ==
    /\ State(h, chat_id, user_id) = from
    /\ text_handler(chat_id, user_id) = h
    /\ IF ~valid_amount(text)
       THEN /\ view' = NumberError
            /\ UNCHANGED <<conv, user_data, chosen>>
       ELSE /\ user_data' = [user_data EXCEPT ![user_id] = Put(@, "amount", parse_float(text))]
            /\ IF Has(user_data[user_id], "dialog_message_id")
               THEN /\ conv' = [conv EXCEPT ![h][<<chat_id, user_id>>] = to]
                    /\ chosen' = [chosen EXCEPT ![h][<<chat_id, user_id>>] =
                                      Put(@, "amount", parse_float(text))]
                    /\ view' = Prompt
               ELSE /\ view' = Failed   \* KeyError: 'dialog_message_id'
                    /\ UNCHANGED <<conv, chosen>>
    /\ UNCHANGED <<users, transactions, next_id, now, started, call, threads, v2>>

add_debt_get_amount(chat_id, user_id, text) ==
    amount_step("add_debt", "GET_AMOUNT", "GET_COMMENT", chat_id, user_id, text)

split_get_amount(chat_id, user_id, text) ==
    amount_step("split", "SPLIT_GET_AMOUNT", "SPLIT_GET_COMMENT", chat_id, user_id, text)

(* The last step of a recording dialogue.  Database.execute either commits the     *)
(* row or raises (db_ok = FALSE); an exception leaves the conversation where it    *)
(* was and error_handler answers.  Every INSERT is a transaction of its own and    *)
(* reads the clock later than the one before it.                                   *)

\* delete_message(message_id=user_data['dialog_message_id']), main menu, END
finish_dialog(h, chat_id, user_id) ==
    IF Has(user_data[user_id], "dialog_message_id")
    THEN /\ conv' = [conv EXCEPT ![h][<<chat_id, user_id>>] = END]
         /\ chosen' = [chosen EXCEPT ![h][<<chat_id, user_id>>] = <<>>]
         /\ view' = MainMenu
    ELSE /\ view' = Failed              \* KeyError: 'dialog_message_id'
         /\ UNCHANGED <<conv, chosen>>

add_debt_save(chat_id, user_id, is_skip, text, db_ok) ==
    /\ State("add_debt", chat_id, user_id) = "GET_COMMENT"
    /\ IF is_skip THEN skip_handler(chat_id, user_id) = "add_debt"
                  ELSE text_handler(chat_id, user_id) = "add_debt"
    /\ LET ud == user_data[user_id]
           comment == IF is_skip THEN "" ELSE text
       IN  IF ~({"creditor_id", "debtor_id", "amount"} \subseteq DOMAIN ud) \/ ~db_ok
           THEN /\ view' = Failed       \* KeyError, or the INSERT failed
                /\ UNCHANGED <<transactions, next_id, now, conv, chosen>>
           ELSE /\ now < MaxTx
                /\ transactions' = insert_transaction(transactions, next_id, chat_id,
                                       ud["creditor_id"], ud["debtor_id"], ud["amount"],
                                       comment, now + 1)
                /\ next_id' = next_id + 1
                /\ now' = now + 1
                /\ finish_dialog("add_debt", chat_id, user_id)
    /\ UNCHANGED <<users, user_data, started, call, threads, v2>>

\* the row of a repayment: the one who returns the debt (debtor_id) is its creditor
repay_row(txs, id, chat_id, ud, amount, ts) ==
    insert_transaction(txs, id, chat_id, ud["debtor_id"], ud["creditor_id"], amount,
                       RepaySentinel, ts)

repay_save(chat_id, user_id, text, db_ok) ==
    /\ State("repay", chat_id, user_id) = "REPAY_GET_AMOUNT"
    /\ text_handler(chat_id, user_id) = "repay"
    /\ LET ud == user_data[user_id]
       IN  IF ~valid_amount(text)
           THEN /\ view' = NumberError
                /\ UNCHANGED <<transactions, next_id, now, conv, chosen>>
           ELSE IF ~({"creditor_id", "debtor_id"} \subseteq DOMAIN ud) \/ ~db_ok
           THEN /\ view' = Failed       \* KeyError, or the INSERT failed
                /\ UNCHANGED <<transactions, next_id, now, conv, chosen>>
           ELSE /\ now < MaxTx
                /\ transactions' = repay_row(transactions, next_id, chat_id, ud,
                                             parse_float(text), now + 1)
                /\ next_id' = next_id + 1
                /\ now' = now + 1
                /\ finish_dialog("repay", chat_id, user_id)
    /\ UNCHANGED <<users, user_data, started, call, threads, v2>>

\* the orders in which a loop over the rows of a set can take them
Orders(S) ==
    {f \in [1..Cardinality(S) -> S] : \A i, j \in 1..Cardinality(S): i # j => f[i] # f[j]}

\* amount_per_person = total_amount / len(members)
amount_per_person(total_amount, n) == FDiv(total_amount, n)

\* the first k add_transaction calls of the loop over the members other than the payer
RECURSIVE insert_shares(_, _, _, _, _, _, _, _, _)
insert_shares(txs, id, chat_id, payer_id, order, k, share, comment, t0) ==
    IF k = 0 THEN txs
    ELSE insert_transaction(
             insert_shares(txs, id, chat_id, payer_id, order, k - 1, share, comment, t0),
             id + k - 1, chat_id, payer_id, order[k], share, comment, t0 + k)

\* the loop takes the members in the order in which the SELECT returned them; k of
\* its inserts succeed, and k below their number is a failure of insert k + 1
split_save(chat_id, user_id, is_skip, text) ==
    /\ State("split", chat_id, user_id) = "SPLIT_GET_COMMENT"
    /\ IF is_skip THEN skip_handler(chat_id, user_id) = "split"
                  ELSE text_handler(chat_id, user_id) = "split"
    /\ LET ud == user_data[user_id]
           comment == IF is_skip THEN "" ELSE text
           members == get_group_members(chat_id)
       IN  IF ~({"payer_id", "amount"} \subseteq DOMAIN ud)
           THEN /\ view' = Failed       \* KeyError
                /\ UNCHANGED <<transactions, next_id, now, conv, chosen>>
           ELSE IF Cardinality(members) > 1
           THEN \E order \in Orders(members \ {ud["payer_id"]}): \E k \in 0..Len(order):
                /\ now + k <= MaxTx
                /\ transactions' = insert_shares(transactions, next_id, chat_id,
                                       ud["payer_id"], order, k,
                                       amount_per_person(ud["amount"], Cardinality(members)),
                                       comment, now)
                /\ next_id' = next_id + k
                /\ now' = now + k
                /\ IF k < Len(order)
                   THEN /\ view' = Failed   \* the INSERT failed
                        /\ UNCHANGED <<conv, chosen>>
                   ELSE finish_dialog("split", chat_id, user_id)
           ELSE /\ UNCHANGED <<transactions, next_id, now>>
                /\ finish_dialog("split", chat_id, user_id)
    /\ UNCHANGED <<users, user_data, started, call, threads, v2>>

(* Leaving a dialogue *)

\* the cancel button: end_conversation clears the user's user_data
end_conversation(chat_id, user_id) ==
    /\ cancel_handler(chat_id, user_id) # "none"
    /\ conv' = [conv EXCEPT ![cancel_handler(chat_id, user_id)][<<chat_id, user_id>>] = END]
    /\ chosen' = [chosen EXCEPT ![cancel_handler(chat_id, user_id)][<<chat_id, user_id>>] = <<>>]
    /\ user_data' = [user_data EXCEPT ![user_id] = <<>>]
    /\ view' = MainMenu
    /\ UNCHANGED <<users, transactions, next_id, now, started, call, threads, v2>>

\* /cancel: cancel_command leaves user_data as it is
cancel_command(chat_id, user_id) ==
    /\ cancel_handler(chat_id, user_id) # "none"
    /\ conv' = [conv EXCEPT ![cancel_handler(chat_id, user_id)][<<chat_id, user_id>>] = END]
    /\ chosen' = [chosen EXCEPT ![cancel_handler(chat_id, user_id)][<<chat_id, user_id>>] = <<>>]
    /\ view' = IF Has(user_data[user_id], "dialog_message_id") THEN Nothing ELSE MainMenu
    /\ UNCHANGED <<users, transactions, next_id, now, user_data, started, call, threads, v2>>

(* Clearing the ledger of a chat *)

\* variant: no check of the sender
is_admin_anyone(user_id) == TRUE

\* the negation of 'if user_id != MY_ADMIN_ID'
is_admin(user_id) == user_id = MY_ADMIN_ID

\* /clear_all_debts, and /cancel while the confirmation is awaited (the fallback of
\* clear_handler)
clear_transactions_start(chat_id, user_id) ==
    /\ \/ State("clear", chat_id, user_id) = END
       \/ /\ State("clear", chat_id, user_id) = "CONFIRM_CLEAR"
          /\ cancel_handler(chat_id, user_id) = "none"
    /\ users' = register_user(users, user_id, chat_id)
    /\ IF ~is_admin(user_id)
       THEN /\ view' = NotAdmin
            /\ conv' = [conv EXCEPT !["clear"][<<chat_id, user_id>>] = END]
            /\ UNCHANGED started
       ELSE /\ started < MaxDialogs
            /\ started' = started + 1
            /\ view' = ConfirmPrompt
            /\ conv' = [conv EXCEPT !["clear"][<<chat_id, user_id>>] = "CONFIRM_CLEAR"]
    /\ UNCHANGED <<transactions, next_id, now, user_data, chosen, call, threads, v2>>

clear_transactions_confirm(chat_id, user_id, data) ==
    /\ State("clear", chat_id, user_id) = "CONFIRM_CLEAR"
    /\ IF data = "confirm_clear_yes"
       THEN /\ transactions' = clear_transactions_for_chat(transactions, chat_id)
            /\ view' = Cleared
       ELSE /\ view' = ClearCancelled
            /\ UNCHANGED transactions
    /\ conv' = [conv EXCEPT !["clear"][<<chat_id, user_id>>] = END]
    /\ UNCHANGED <<users, next_id, now, user_data, chosen, started, call, threads, v2>>

----------------------------------------------------------------------------
(* The dialogues: every update a user of a chat can send that starts, advances or *)
(* leaves a conversation, and the main menu.  The balance report, which writes    *)
(* nothing, is specified above.                                                   *)

Update(chat_id, user_id) ==
    \/ start_menu_command(chat_id, user_id)
    \/ add_debt_start(chat_id, user_id)
    \/ repay_start(chat_id, user_id)
    \/ split_start(chat_id, user_id)
    \/ \E uid \in Users: add_debt_select_creditor(chat_id, user_id, uid)
    \/ \E uid \in Users: add_debt_select_debtor(chat_id, user_id, uid)
    \/ \E uid \in Users: repay_select_debtor(chat_id, user_id, uid)
    \/ \E uid \in Users: repay_select_creditor(chat_id, user_id, uid)
    \/ \E uid \in Users: split_select_payer(chat_id, user_id, uid)
    \/ \E text \in AmountTexts: add_debt_get_amount(chat_id, user_id, text)
    \/ \E text \in AmountTexts: split_get_amount(chat_id, user_id, text)
    \/ \E is_skip \in BOOLEAN, text \in CommentTexts, db_ok \in BOOLEAN:
           add_debt_save(chat_id, user_id, is_skip, text, db_ok)
    \/ \E text \in AmountTexts, db_ok \in BOOLEAN:
           repay_save(chat_id, user_id, text, db_ok)
    \/ \E is_skip \in BOOLEAN, text \in CommentTexts:
           split_save(chat_id, user_id, is_skip, text)
    \/ end_conversation(chat_id, user_id)
    \/ cancel_command(chat_id, user_id)
    \/ clear_transactions_start(chat_id, user_id)
    \/ \E data \in {"confirm_clear_yes", "confirm_clear_no"}:
           clear_transactions_confirm(chat_id, user_id, data)

\* the updates are sent by the admin; the other members are written about
Senders == {MY_ADMIN_ID}

Next == \E chat_id \in Chats, user_id \in Senders: Update(chat_id, user_id)

\* the database left by earlier runs: the three members of the first group, in
\* which member 2 owes member 1 100, and one member of the second group
StoredLedger ==
    [users |-> Members(BalChat, Users) \cup Members(OtherChat, {2}),
     transactions |-> <<Row(1, BalChat, 1, 2, Fin(100000), "lunch", 0)>>]

InitStored == Start(StoredLedger)

Spec == InitStored /\ [][Next]_vars

----------------------------------------------------------------------------
(* Properties of the dialogues *)

\* the rows that the step appended to the table
NewRows == SubSeq(transactions', Len(transactions) + 1, Len(transactions'))

\* C3: when the only transaction of the group is a debt of amount X with creditor A
\* and debtor B, and a repay dialogue in which the user chose B as the one who
\* returns and A as the one who receives is completed with the amount X, then
\* calculate_balances of the group is empty.
C3_RepayRoundTrip ==
    [][\A chat_id \in Chats, user_id \in Users, text \in AmountTexts:
         LET ch == chosen["repay"][<<chat_id, user_id>>]
             before == get_all_transactions(chat_id)
         IN  ( /\ repay_save(chat_id, user_id, text, TRUE)
               /\ conv'["repay"][<<chat_id, user_id>>] = END
               /\ {"payer", "receiver"} \subseteq DOMAIN ch
               /\ ch["payer"] # ch["receiver"]
               /\ Len(before) = 1
               /\ before[1].creditor_id = ch["receiver"]
               /\ before[1].debtor_id = ch["payer"]
               /\ before[1].amount = parse_float(text) )
             => DOMAIN (calculate_balances(chat_id))' = {}
    ]_vars

\* C6: completing the split dialogue in which the user chose payer P and entered
\* the total T, in a group of N >= 2 members, appends exactly N - 1 rows of the
\* group, one per member other than P, each with creditor P, amount T / N and the
\* comment of the dialogue.
C6_SplitShares ==
    [][\A chat_id \in Chats, user_id \in Users, is_skip \in BOOLEAN, text \in CommentTexts:
         LET ch == chosen["split"][<<chat_id, user_id>>]
             members == get_group_members(chat_id)
             N == Cardinality(members)
         IN  ( /\ split_save(chat_id, user_id, is_skip, text)
               /\ conv'["split"][<<chat_id, user_id>>] = END
               /\ N >= 2
               /\ {"payer", "amount"} \subseteq DOMAIN ch )
             => /\ SubSeq(transactions', 1, Len(transactions)) = transactions
                /\ Len(NewRows) = N - 1
                /\ \A m \in members \ {ch["payer"]}:
                       \E i \in 1..Len(NewRows): NewRows[i].debtor_id = m
                /\ \A i \in 1..Len(NewRows):
                       /\ NewRows[i].chat_id = chat_id
                       /\ NewRows[i].creditor_id = ch["payer"]
                       /\ NewRows[i].debtor_id # ch["payer"]
                       /\ NewRows[i].amount = FDiv(ch["amount"], N)
                       /\ NewRows[i].comment = (IF is_skip THEN "" ELSE text)
    ]_vars

\* C7: a step of split_save appends either all the share rows of its loop (one per
\* member other than the stored payer) or none.
C7_SplitAtomic ==
    [][\A chat_id \in Chats, user_id \in Users, is_skip \in BOOLEAN, text \in CommentTexts:
         ( /\ split_save(chat_id, user_id, is_skip, text)
           /\ Has(user_data[user_id], "payer_id") )
         => Len(NewRows) \in
                {0, Cardinality(get_group_members(chat_id) \ {user_data[user_id]["payer_id"]})}
    ]_vars

\* C8: every row of the table has an amount greater than zero.
C8_AmountsPositive ==
    \A i \in 1..Len(transactions): FGt(transactions[i].amount, Fin(0))

\* a text that is not a number, or a number that is not positive
InvalidAmount(text) ==
    \/ parse_float(text) = ValueError
    \/ IsNaN(parse_float(text))
    \/ FLe(parse_float(text), Fin(0))

\* C9: when the text entered at the amount step of the add-debt, repay or split
\* dialogue is not a number or is not positive, the number error is shown, the
\* table is unchanged and every conversation stays in its state.
C9_InvalidAmountRejected ==
    [][\A chat_id \in Chats, user_id \in Users, text \in AmountTexts:
         ( /\ InvalidAmount(text)
           /\ \/ add_debt_get_amount(chat_id, user_id, text)
              \/ split_get_amount(chat_id, user_id, text)
              \/ \E db_ok \in BOOLEAN: repay_save(chat_id, user_id, text, db_ok) )
         => /\ view' = NumberError
            /\ transactions' = transactions
            /\ conv' = conv
    ]_vars

\* the rows of a group, in the order of the table
RowsOf(txs, chat_id) == SelectSeq(txs, LAMBDA r: r.chat_id = chat_id)

IsPrefix(s, t) == Len(s) <= Len(t) /\ SubSeq(t, 1, Len(s)) = s

\* C10: every step keeps the rows of every group, unchanged and in place, and at
\* most appends to them, unless the step is the confirmed clear of that group.
C10_AppendOnly ==
    [][\A chat_id \in Chats:
         \/ IsPrefix(RowsOf(transactions, chat_id), RowsOf(transactions', chat_id))
         \/ \E user_id \in Users:
                clear_transactions_confirm(chat_id, user_id, "confirm_clear_yes")
    ]_vars

\* a clear removed rows of its group and rows of the other group are still in
\* the table
C10_Witness ==
    /\ view = Cleared
    /\ transactions # <<>>
    /\ Len(transactions) < next_id - 1

\* C11: the confirmed clear of a group leaves the members of the group as they
\* were, and after it the group has no transactions and calculate_balances of the
\* group is empty.
C11_ClearFrame ==
    [][\A chat_id \in Chats, user_id \in Users:
         clear_transactions_confirm(chat_id, user_id, "confirm_clear_yes")
         => /\ members_of(users', chat_id) = members_of(users, chat_id)
            /\ (get_all_transactions(chat_id))' = <<>>
            /\ RowsOf(transactions', chat_id) = <<>>
            /\ DOMAIN (calculate_balances(chat_id))' = {}
    ]_vars

\* a clear has emptied a table that held rows, and the members are still there
C11_Witness ==
    /\ view = Cleared
    /\ transactions = <<>>
    /\ next_id > 1
    /\ Cardinality(get_group_members(BalChat)) = 3

\* get_all_transactions of the group after the step
RowsAfter(chat_id) == OrderByTimestamp(RowsOf(transactions', chat_id))

\* the step changed the members, the transactions or the computed balances of
\* the group (calculate_balances reads the transactions table only)
GroupChanged(H) ==
    \/ members_of(users', H) # members_of(users, H)
    \/ RowsOf(transactions', H) # RowsOf(transactions, H)
    \/ /\ transactions' # transactions
       /\ \/ RowsAfter(H) # get_all_transactions(H)
          \/ balances_of(RowsAfter(H)) # calculate_balances(H)

\* C12: an update handled in group G (recording a transaction, registering a
\* member, clearing the ledger, or anything else) leaves the members, the
\* transactions and the computed balances of every other group H unchanged:
\* a step that changes them for H is not an update handled in a group G # H.
C12_GroupsIsolated ==
    [][\A H \in Chats:
         GroupChanged(H)
         => \A G \in Chats \ {H}, user_id \in Users: ~Update(G, user_id)
    ]_vars

\* both groups hold rows and the sender was registered in the second group: rows
\* were recorded in one group while the other had members, rows and balances
C12_Witness ==
    /\ RowsOf(transactions, BalChat) # <<>>
    /\ RowsOf(transactions, OtherChat) # <<>>
    /\ get_group_members(OtherChat) = {1, 2}
    /\ DOMAIN calculate_balances(BalChat) # {}

----------------------------------------------------------------------------
(* The clear command with every member of the groups sending: /clear_all_debts *)
(* and /cancel, the two confirmation buttons, presses of the buttons by users  *)
(* whose conversation does not wait for them, and rows being recorded.         *)

\* a press of a confirmation button by a user whose clear conversation is not in
\* CONFIRM_CLEAR: no handler of init_bot takes the callback
unhandled_callback(chat_id, user_id) ==
    /\ State("clear", chat_id, user_id) # "CONFIRM_CLEAR"
    /\ view' = Nothing
    /\ UNCHANGED <<users, transactions, next_id, now, conv, user_data, chosen, started, call, threads, v2>>

NextClear ==
    \/ \E chat_id \in Chats, user_id \in Users: clear_transactions_start(chat_id, user_id)
    \/ \E chat_id \in Chats, user_id \in Users, data \in {"confirm_clear_yes", "confirm_clear_no"}:
           clear_transactions_confirm(chat_id, user_id, data)
    \/ \E chat_id \in Chats, user_id \in Users: unhandled_callback(chat_id, user_id)
    \/ \E chat_id \in Chats: add_transaction(chat_id, 2, 1, Fin(40000), "")

SpecClear == InitStored /\ [][NextClear]_vars

\* the step deleted or changed a stored row of the group
RowsDeleted(chat_id) ==
    ~IsPrefix(RowsOf(transactions, chat_id), RowsOf(transactions', chat_id))

\* C13: rows of a group are deleted only by the step in which the configured admin
\* presses the yes button in that group while his conversation there waits for the
\* confirmation, a state that only his /clear_all_debts (or his /cancel repeating
\* it) in that group enters; the command of a non-admin, a press of a button by
\* any user whose conversation does not wait for it, and the no answer delete
\* nothing.
C13_OnlyAdminClears ==
    [][\A chat_id \in Chats:
         /\ RowsDeleted(chat_id)
            => /\ State("clear", chat_id, MY_ADMIN_ID) = "CONFIRM_CLEAR"
               /\ clear_transactions_confirm(chat_id, MY_ADMIN_ID, "confirm_clear_yes")
         /\ \A user_id \in Users:
              /\ ( /\ State("clear", chat_id, user_id) # "CONFIRM_CLEAR"
                   /\ conv'["clear"][<<chat_id, user_id>>] = "CONFIRM_CLEAR" )
                 => /\ user_id = MY_ADMIN_ID
                    /\ clear_transactions_start(chat_id, user_id)
              /\ ( \/ user_id # MY_ADMIN_ID /\ clear_transactions_start(chat_id, user_id)
                   \/ unhandled_callback(chat_id, user_id)
                   \/ clear_transactions_confirm(chat_id, user_id, "confirm_clear_no") )
                 => /\ transactions' = transactions
                    /\ conv'["clear"][<<chat_id, user_id>>] # "CONFIRM_CLEAR"
    ]_vars

\* member 3, who is not the admin, sent /clear_all_debts in the second group (it
\* registered him there), a row recorded there was deleted by the admin's
\* confirmed clear, and the rows of the first group are still stored
C13_Witness ==
    /\ 3 \in get_group_members(OtherChat)
    /\ view = Cleared
    /\ RowsOf(transactions, OtherChat) = <<>>
    /\ RowsOf(transactions, BalChat) # <<>>
    /\ next_id > 2

----------------------------------------------------------------------------
(* Repayments *)

\* C14: completing the repay dialogue in which the user chose P as the one who
\* returns and Q as the one who receives appends exactly one row, of the group,
\* with creditor P, debtor Q, the entered amount and the sentinel comment.
C14_RepayRow ==
    [][\A chat_id \in Chats, user_id \in Users, text \in AmountTexts:
         LET ch == chosen["repay"][<<chat_id, user_id>>]
         IN  ( /\ repay_save(chat_id, user_id, text, TRUE)
               /\ conv'["repay"][<<chat_id, user_id>>] = END
               /\ {"payer", "receiver"} \subseteq DOMAIN ch )
             => /\ SubSeq(transactions', 1, Len(transactions)) = transactions
                /\ Len(NewRows) = 1
                /\ NewRows[1].chat_id = chat_id
                /\ NewRows[1].creditor_id = ch["payer"]
                /\ NewRows[1].debtor_id = ch["receiver"]
                /\ NewRows[1].amount = parse_float(text)
                /\ NewRows[1].comment = RepaySentinel
    ]_vars

(* The monthly history, with the repay dialogue of one group filling the table *)

\* Database.get_user_name: the stored first name (the member's id stands for it),
\* or "???" for a user who is not in the users table of the chat
get_user_name(user_id, chat_id) ==
    IF user_id \in get_group_members(chat_id) THEN user_id ELSE "???"

\* [name](tg://user?id=user_id)
get_user_mention(user_id, chat_id) ==
    [name |-> get_user_name(user_id, chat_id), id |-> user_id]

\* strftime("%Y-%m") of a timestamp, as the pair <<year, month>>: two clock ticks
\* to a month, the first month being December 2025
year_month(ts) ==
    <<2025 + ((ts \div 2 + 11) \div 12), ((ts \div 2 + 11) % 12) + 1>>

\* the results that SELECT ... WHERE chat_id=%s ORDER BY timestamp ASC can return:
\* the rows of the chat in ascending order of timestamp; the query names no second
\* sort key, so rows with equal timestamps come in any order
query_results(chat_id) ==
    {rows \in Orders({transactions[i] : i \in {j \in 1..Len(transactions) :
                                                  transactions[j].chat_id = chat_id}}) :
        \A i, j \in 1..Len(rows): i < j => rows[i].timestamp <= rows[j].timestamp}

\* one line of the history: "<d_id> repaid the debt to <c_id>" for the sentinel
\* comment, "<d_id> borrowed from <c_id> (comment)" otherwise
history_line(tx, chat_id) ==
    IF tx.comment = RepaySentinel
    THEN [verb |-> "repaid", subject |-> get_user_mention(tx.debtor_id, chat_id),
          object |-> get_user_mention(tx.creditor_id, chat_id)]
    ELSE [verb |-> "borrowed", subject |-> get_user_mention(tx.debtor_id, chat_id),
          object |-> get_user_mention(tx.creditor_id, chat_id), comment |-> tx.comment]

HistoryView(ym, shown, lines) ==
    [kind |-> "history", month |-> ym, shown |-> shown, lines |-> lines]

\* the callback history_show_<month>; shown lists the ids of processed_transactions
history_show_handler(chat_id, user_id, ym) ==
    /\ users' = register_user(users, user_id, chat_id)
    /\ \E rows \in query_results(chat_id):
           LET processed_transactions ==
                   SelectSeq(rows, LAMBDA tx: year_month(tx.timestamp) = ym)
           IN  view' = HistoryView(ym,
                           [i \in 1..Len(processed_transactions) |->
                               processed_transactions[i].id],
                           [i \in 1..Len(processed_transactions) |->
                               history_line(processed_transactions[i], chat_id)])
    /\ UNCHANGED <<transactions, next_id, now, conv, user_data, chosen, started, call, threads, v2>>

NextHistory ==
    \E user_id \in Senders:
        \/ repay_start(BalChat, user_id)
        \/ \E uid \in Users: repay_select_debtor(BalChat, user_id, uid)
        \/ \E uid \in Users: repay_select_creditor(BalChat, user_id, uid)
        \/ \E text \in AmountTexts, db_ok \in BOOLEAN: repay_save(BalChat, user_id, text, db_ok)
        \/ \E ym \in {year_month(ts) : ts \in 0..MaxTx}:
               history_show_handler(BalChat, user_id, ym)

SpecHistory == InitStored /\ [][NextHistory]_vars

\* C15: the history line of the row that a completed repay dialogue records, in
\* which the user chose P as the one who returns and Q as the one who receives,
\* names P as the one who repaid and Q as the one who was repaid.
C15_HistoryNamesPayer ==
    [][\A chat_id \in Chats, user_id \in Users, text \in AmountTexts:
         LET ch == chosen["repay"][<<chat_id, user_id>>]
         IN  ( /\ repay_save(chat_id, user_id, text, TRUE)
               /\ conv'["repay"][<<chat_id, user_id>>] = END
               /\ {"payer", "receiver"} \subseteq DOMAIN ch
               /\ ch["payer"] # ch["receiver"] )
             => LET line == history_line(NewRows[1], chat_id)
                IN  /\ line.verb = "repaid"
                    /\ line.subject.id = ch["payer"]
                    /\ line.object.id = ch["receiver"]
    ]_vars

----------------------------------------------------------------------------
(* Database.execute, attempt by attempt.  A pass of the loop connects if the   *)
(* connection is missing or closed, runs the statement and commits; a          *)
(* connectivity error (InterfaceError, OperationalError) leads to _connect()   *)
(* and the next pass, any other psycopg2.Error to rollback() and raise.  The   *)
(* server decides the outcome of each pass; when the connection is lost during *)
(* commit() the server may or may not have committed the statement.            *)

Queries ==
    {[op |-> "add_transaction", chat_id |-> BalChat, c_id |-> 2, d_id |-> 1,
      amount |-> Fin(40000), comment |-> ""],
     [op |-> "add_transaction", chat_id |-> OtherChat, c_id |-> 2, d_id |-> 1,
      amount |-> Fin(40000), comment |-> ""],
     [op |-> "clear_transactions_for_chat", chat_id |-> BalChat],
     [op |-> "register_user", user_id |-> 3, chat_id |-> OtherChat]}

Outcomes == {"connect_failed", "ok", "connection_lost", "database_error"}

\* the statement of the query took effect on the server
committed(query) ==
    IF query.op = "add_transaction"
    THEN /\ transactions' = insert_transaction(transactions, next_id, query.chat_id,
                                 query.c_id, query.d_id, query.amount, query.comment, now + 1)
         /\ next_id' = next_id + 1
         /\ now' = now + 1
         /\ UNCHANGED users
    ELSE IF query.op = "clear_transactions_for_chat"
    THEN /\ transactions' = clear_transactions_for_chat(transactions, query.chat_id)
         /\ UNCHANGED <<users, next_id, now>>
    ELSE /\ users' = register_user(users, query.user_id, query.chat_id)
         /\ UNCHANGED <<transactions, next_id, now>>

\* variant: for i in range(retries + 1)
more_attempts_one_more(i) == i <= Retries

\* for i in range(retries)
more_attempts(i) == i < Retries

\* except (InterfaceError, OperationalError): log, then _connect() is next
on_connectivity_error(c) == [c EXCEPT !.pc = "reconnect"]

\* variant: any psycopg2.Error is handled as a connectivity error
on_database_error_retried(c) == [c EXCEPT !.pc = "reconnect"]

\* except psycopg2.Error: rollback() and raise
on_database_error(c) == [c EXCEPT !.pc = "raised", !.error = "database"]

\* a Database method calls execute: the loop is entered
execute(query) ==
    /\ call.pc \in {"idle", "returned", "raised"}
    /\ call.n < MaxCalls
    /\ call' = [call EXCEPT !.pc = "attempt", !.n = @ + 1, !.i = 0, !.attempts = 0,
                            !.query = query, !.error = "none",
                            !.before = [users |-> users, transactions |-> transactions]]
    /\ UNCHANGED <<users, transactions, next_id, now, conv, user_data, chosen, started, view,
                   threads, v2>>

\* one pass of the loop body, up to its return or its except clause
attempt(outcome, applied) ==
    /\ call.pc = "attempt"
    /\ outcome = "connect_failed" => call.conn # "open"
    /\ applied => outcome = "connection_lost"
    /\ IF outcome = "connect_failed"
       THEN /\ call' = on_connectivity_error(call)
            /\ UNCHANGED <<users, transactions, next_id, now>>
       ELSE IF outcome = "ok"
       THEN /\ committed(call.query)
            /\ call' = [call EXCEPT !.pc = "returned", !.conn = "open", !.attempts = @ + 1]
       ELSE IF outcome = "connection_lost"
       THEN /\ IF applied THEN committed(call.query)
                          ELSE UNCHANGED <<users, transactions, next_id, now>>
            /\ call' = on_connectivity_error(
                           [call EXCEPT !.conn = "closed", !.attempts = @ + 1])
       ELSE /\ UNCHANGED <<users, transactions, next_id, now>>
            /\ call' = on_database_error(
                           [call EXCEPT !.conn = "open", !.attempts = @ + 1])
    /\ UNCHANGED <<conv, user_data, chosen, started, view, threads, v2>>

\* _connect() in the except clause, then the next pass of the loop or, after the
\* last pass, the raise that follows the loop; an error of _connect() leaves
\* execute at once
reconnect(ok) ==
    /\ call.pc = "reconnect"
    /\ call' = IF ~ok
               THEN [call EXCEPT !.pc = "raised", !.error = "connectivity", !.conn = "closed"]
               ELSE IF more_attempts(call.i + 1)
               THEN [call EXCEPT !.pc = "attempt", !.conn = "open", !.i = @ + 1]
               ELSE [call EXCEPT !.pc = "raised", !.error = "retries", !.conn = "open",
                                 !.i = @ + 1]
    /\ UNCHANGED <<users, transactions, next_id, now, conv, user_data, chosen, started, view,
                   threads, v2>>

\* the steps of a call in progress
ExecStep ==
    \/ \E outcome \in Outcomes, applied \in BOOLEAN: attempt(outcome, applied)
    \/ \E ok \in BOOLEAN: reconnect(ok)

NextExec ==
    \/ \E query \in Queries: execute(query)
    \/ ExecStep

SpecExec == InitStored /\ [][NextExec]_vars

\* execute is sequential code: a call in progress takes its next step
SpecExecFair == SpecExec /\ WF_vars(ExecStep)

\* C16: a call of execute runs the statement at most Retries times and makes at
\* most Retries passes of the loop; a pass after the first follows a _connect() of
\* the except clause; after the last failed pass the call has raised; and every
\* call in progress returns or raises.
C16_BoundedRetries ==
    /\ [][/\ call'.attempts <= Retries
          /\ call'.i <= Retries
          /\ (call'.pc = "attempt" /\ call'.i > 0 /\ call.pc # "attempt")
                 => (call.pc = "reconnect" /\ call'.conn = "open")
          /\ call'.i = Retries => (call'.pc = "raised" /\ call'.error = "retries")
         ]_vars
    /\ (call.pc \in {"attempt", "reconnect"}) ~> (call.pc \in {"returned", "raised"})

\* all the passes of a call failed on connectivity errors and the call raised
C16_Witness ==
    /\ call.pc = "raised"
    /\ call.error = "retries"
    /\ call.attempts = Retries

\* C17: a pass in which the statement fails with an error that is not a
\* connectivity error ends the call: it raises, no pass follows, and the tables
\* are as they were before the pass.
C17_NoRetryOnDatabaseError ==
    [][attempt("database_error", FALSE)
       => /\ call'.pc = "raised"
          /\ call'.error = "database"
          /\ call'.attempts = call.attempts + 1
          /\ users' = users
          /\ transactions' = transactions
    ]_vars

\* a call raised a database error on its second pass, after a connectivity error
C17_Witness ==
    /\ call.pc = "raised"
    /\ call.error = "database"
    /\ call.attempts = 2
    /\ transactions = call.before.transactions

\* C18: a call of add_transaction that has returned has appended exactly one row
\* to the table as it was when the call began, and a call that has raised has
\* left the table as it was.
C18_ExactlyOneRow ==
    call.query.op = "add_transaction"
    => /\ call.pc = "returned"
          => /\ IsPrefix(call.before.transactions, transactions)
             /\ Len(transactions) = Len(call.before.transactions) + 1
       /\ call.pc = "raised" => transactions = call.before.transactions

----------------------------------------------------------------------------
(* Members *)

\* C19: the creditor and the debtor of every row of the table are registered
\* members of the group of the row.
C19_PartiesAreMembers ==
    \A i \in 1..Len(transactions):
        {transactions[i].creditor_id, transactions[i].debtor_id}
            \subseteq get_group_members(transactions[i].chat_id)

\* C20: no step removes a row of the users table (the clear of the ledger
\* included); registering a (user, group) pair that is in the table gives the same
\* table, and /start or /menu sent by a registered member of the group shows the
\* main menu and leaves the table unchanged.
C20_RegisterIdempotentMonotone ==
    [][/\ users \subseteq users'
       /\ \A chat_id \in Chats, user_id \in Users:
            [user_id |-> user_id, chat_id |-> chat_id] \in users
            => /\ register_user(users, user_id, chat_id) = users
               /\ start_menu_command(chat_id, user_id)
                  => (users' = users /\ view' = MainMenu)
    ]_vars

\* the admin, a registered member of the first group, has sent /start there and
\* nothing else has happened
C20_Witness ==
    /\ view = MainMenu
    /\ started = 0
    /\ users = StoredLedger.users

----------------------------------------------------------------------------
(* Reading the ledger *)

----------------------------------------------------------------------------
(* Two members of one group recording at the same time: their updates are *)
(* handled one at a time, in any order.                                   *)

ConcurrentSenders == {1, 2}

NextConcurrent ==
    \E user_id \in ConcurrentSenders:
        \/ add_debt_start(BalChat, user_id)
        \/ repay_start(BalChat, user_id)
        \/ split_start(BalChat, user_id)
        \/ \E uid \in Users: add_debt_select_creditor(BalChat, user_id, uid)
        \/ \E uid \in Users: add_debt_select_debtor(BalChat, user_id, uid)
        \/ \E uid \in Users: repay_select_debtor(BalChat, user_id, uid)
        \/ \E uid \in Users: repay_select_creditor(BalChat, user_id, uid)
        \/ \E uid \in Users: split_select_payer(BalChat, user_id, uid)
        \/ \E text \in AmountTexts: add_debt_get_amount(BalChat, user_id, text)
        \/ \E text \in AmountTexts: split_get_amount(BalChat, user_id, text)
        \/ \E is_skip \in BOOLEAN, text \in CommentTexts, db_ok \in BOOLEAN:
               add_debt_save(BalChat, user_id, is_skip, text, db_ok)
        \/ \E text \in AmountTexts, db_ok \in BOOLEAN:
               repay_save(BalChat, user_id, text, db_ok)
        \/ \E is_skip \in BOOLEAN, text \in CommentTexts:
               split_save(BalChat, user_id, is_skip, text)

SpecConcurrent == InitStored /\ [][NextConcurrent]_vars

\* the step is the save of the dialogue h of the user and ends its conversation
Completes(h, user_id) ==
    /\ State(h, BalChat, user_id) # END
    /\ conv'[h][<<BalChat, user_id>>] = END
    /\ \/ h = "add_debt" /\ \E is_skip \in BOOLEAN, text \in CommentTexts:
                               add_debt_save(BalChat, user_id, is_skip, text, TRUE)
       \/ h = "repay" /\ \E text \in AmountTexts: repay_save(BalChat, user_id, text, TRUE)
       \/ h = "split" /\ \E is_skip \in BOOLEAN, text \in CommentTexts:
                            split_save(BalChat, user_id, is_skip, text)

\* C22: with two members of a group recording at the same time, every step keeps
\* the rows of the table in place, and every recording that completes appends its
\* rows to them: one row for add-debt and repay, one row per other member for
\* split.
C22_NoLostUpdate ==
    [][/\ IsPrefix(transactions, transactions')
       /\ \A user_id \in ConcurrentSenders, h \in {"add_debt", "repay", "split"}:
            Completes(h, user_id)
            => /\ Len(NewRows) = IF h = "split"
                                  THEN Cardinality(get_group_members(BalChat)) - 1
                                  ELSE 1
               /\ \A i \in 1..Len(NewRows): NewRows[i].chat_id = BalChat
    ]_vars

\* each of the two members has completed a recording, and both rows are stored
\* after the row that was there
C22_Witness ==
    /\ Len(transactions) = 3
    /\ started = 2
    /\ \A user_id \in ConcurrentSenders:
           /\ user_data[user_id] # <<>>
           /\ \A h \in {"add_debt", "repay", "split"}: State(h, BalChat, user_id) = END

----------------------------------------------------------------------------
(* The reports of one group: rows are written with the clock standing still or *)
(* advancing between two of them, and the personal summary, the history menu,  *)
(* the history of a month and the list of all transactions are requested.      *)

ReadAmounts == {Fin(40000), Fin(100000)}
ClockSteps == {0, 1, 2}

\* Database.add_transaction; datetime.now() has advanced by dt since the last row
add_transaction_at(chat_id, c_id, d_id, amount, comment, dt) ==
    /\ Len(transactions) < MaxLog
    /\ transactions' = insert_transaction(transactions, next_id, chat_id, c_id, d_id,
                                          amount, comment, now + dt)
    /\ next_id' = next_id + 1
    /\ now' = now + dt
    /\ view' = MainMenu
    /\ UNCHANGED <<users, conv, user_data, chosen, started, call, threads, v2>>

\* variant: the lines of every entry, whoever its debtor
i_owe_everyone(nd, user_id, chat_id) ==
    {get_user_mention(p[2], chat_id) : p \in DOMAIN nd}

\* the lines under "I owe": the creditor of each entry whose debtor is the user
i_owe(nd, user_id, chat_id) ==
    {get_user_mention(p[2], chat_id) : p \in {q \in DOMAIN nd : q[1] = user_id}}

\* the lines under "owed to me": the debtor of each entry whose creditor is the user
owe_me(nd, user_id, chat_id) ==
    {get_user_mention(p[1], chat_id) : p \in {q \in DOMAIN nd : q[2] = user_id}}

\* i_owe or "nobody": an empty part is replaced by the marker
part_or_marker(lines) == [marker |-> lines = {}, lines |-> lines]

MyDebtsView(chat_id, user_id, part1, part2) ==
    [kind |-> "my_debts", chat_id |-> chat_id, user_id |-> user_id,
     i_owe |-> part1, owe_me |-> part2]

\* my_debts_handler: the personal summary of the sender
my_debts_handler(chat_id, user_id) ==
    /\ users' = register_user(users, user_id, chat_id)
    /\ LET nd == calculate_balances(chat_id)
       IN  view' = MyDebtsView(chat_id, user_id,
                               part_or_marker(i_owe(nd, user_id, chat_id)),
                               part_or_marker(owe_me(nd, user_id, chat_id)))
    /\ UNCHANGED <<transactions, next_id, now, conv, user_data, chosen, started, call, threads, v2>>

\* Database.get_all_transactions as a call of its own: the fetched rows are kept
\* in the view
RowsView(chat_id, rows) == [kind |-> "rows", chat_id |-> chat_id, rows |-> rows]

fetch_all_transactions(chat_id) ==
    /\ \E rows \in query_results(chat_id): view' = RowsView(chat_id, rows)
    /\ UNCHANGED <<users, transactions, next_id, now, conv, user_data, chosen, started, call, threads, v2>>

\* ts_obj.strftime("%Y-%m"): four digits of the year, the hyphen (below every
\* digit in the character order, here -1) and two digits of the month
strftime_ym(ym) ==
    <<ym[1] \div 1000, (ym[1] \div 100) % 10, (ym[1] \div 10) % 10, ym[1] % 10,
      -1, ym[2] \div 10, ym[2] % 10>>

\* datetime.strptime(m, '%Y-%m'): the year and the month of the text
strptime_ym(m) ==
    <<m[1] * 1000 + m[2] * 100 + m[3] * 10 + m[4], m[6] * 10 + m[7]>>

\* variant: texts compared by their month digits only
str_less_by_month(a, b) ==
    a[6] < b[6] \/ (a[6] = b[6] /\ a[7] < b[7])

\* a < b for two strings: the first differing character decides, a proper prefix
\* is smaller
str_less(a, b) ==
    \/ \E k \in 1..Len(a):
           /\ k <= Len(b)
           /\ a[k] < b[k]
           /\ \A i \in 1..(k - 1): a[i] = b[i]
    \/ Len(a) < Len(b) /\ \A i \in 1..Len(a): a[i] = b[i]

\* sorted(list(months), reverse=True)
sorted_reverse(months) ==
    CHOOSE order \in Orders(months):
        \A i, j \in 1..Len(order): i < j => ~str_less(order[i], order[j])

HistoryEmpty == [kind |-> "history_empty"]
MonthsMenu(chat_id, buttons) ==
    [kind |-> "history_menu", chat_id |-> chat_id, months |-> buttons]

\* history_menu_handler: one button per month text of the chat's rows
history_menu_handler(chat_id, user_id) ==
    /\ users' = register_user(users, user_id, chat_id)
    /\ \E transactions_raw \in query_results(chat_id):
           IF transactions_raw = <<>>
           THEN view' = HistoryEmpty
           ELSE LET months == {strftime_ym(year_month(transactions_raw[i].timestamp)) :
                                   i \in 1..Len(transactions_raw)}
                    sorted_months == sorted_reverse(months)
                IN  view' = MonthsMenu(chat_id,
                                [i \in 1..Len(sorted_months) |-> strptime_ym(sorted_months[i])])
    /\ UNCHANGED <<transactions, next_id, now, conv, user_data, chosen, started, call, threads, v2>>

ReadMonths == {year_month(ts) : ts \in 0..(2 * MaxLog)}

NextRead ==
    \/ \E chat_id \in Chats: \E c_id \in Users: \E d_id \in Users \ {c_id}:
       \E amount \in ReadAmounts: \E dt \in ClockSteps:
           add_transaction_at(chat_id, c_id, d_id, amount, "", dt)
    \/ \E user_id \in Users: my_debts_handler(BalChat, user_id)
    \/ fetch_all_transactions(BalChat)
    \/ \E user_id \in Users: history_menu_handler(BalChat, user_id)
    \/ \E user_id \in Users: \E ym \in ReadMonths:
           history_show_handler(BalChat, user_id, ym)

SpecRead == Init /\ [][NextRead]_vars

\* C23: the personal summary of user U lists under "I owe" exactly the entries of
\* the net debts whose debtor is U, each by its creditor, and under "owed to me"
\* exactly those whose creditor is U, each by its debtor; entries without U are in
\* neither part; an empty part, and only an empty part, is shown as the marker.
C23_PersonalSummary ==
    [][\A U \in Users:
         view'.kind = "my_debts" /\ my_debts_handler(BalChat, U)
         => LET nd == calculate_balances(BalChat)
                mine == view'.i_owe
                theirs == view'.owe_me
            IN  /\ \A p \in DOMAIN nd:
                       /\ p[1] = U => \E l \in mine.lines: l.id = p[2]
                       /\ p[2] = U => \E l \in theirs.lines: l.id = p[1]
                /\ \A l \in mine.lines: <<U, l.id>> \in DOMAIN nd
                /\ \A l \in theirs.lines: <<l.id, U>> \in DOMAIN nd
                /\ mine.marker <=> ~\E p \in DOMAIN nd: p[1] = U
                /\ theirs.marker <=> ~\E p \in DOMAIN nd: p[2] = U
    ]_vars

\* a summary of a user who owes one member, is owed nothing, while an entry
\* between the two other members exists
C23_Witness ==
    /\ view.kind = "my_debts"
    /\ ~view.i_owe.marker
    /\ view.owe_me.marker
    /\ \E p \in DOMAIN calculate_balances(BalChat): view.user_id \notin {p[1], p[2]}

\* C24: the rows that get_all_transactions returns are in ascending order of
\* timestamp, and two rows with equal timestamps are in the order of their
\* insertion (the order of their ids).
C24_InsertionOrderOnTies ==
    view.kind = "rows"
    => \A i, j \in 1..Len(view.rows):
           i < j => \/ view.rows[i].timestamp < view.rows[j].timestamp
                    \/ /\ view.rows[i].timestamp = view.rows[j].timestamp
                       /\ view.rows[i].id < view.rows[j].id

\* the months of the calendar in which the chat has a row
MonthsWithRows(chat_id) ==
    {year_month(transactions[i].timestamp) :
        i \in {j \in 1..Len(transactions) : transactions[j].chat_id = chat_id}}

\* month a is later in the calendar than month b
LaterMonth(a, b) == a[1] > b[1] \/ (a[1] = b[1] /\ a[2] > b[2])

\* the stored row with the given id
TxById(id) == CHOOSE tx \in {transactions[i] : i \in 1..Len(transactions)}: tx.id = id

\* C25: the history menu of a group with rows lists every year-month that has a
\* row of the group, once, the newest first; the view of a month shows exactly
\* the rows of the group whose timestamp lies in that month, each once, in
\* ascending order of timestamp.
C25_HistoryByMonth ==
    [][/\ \A u \in Users:
              /\ view'.kind \in {"history_menu", "history_empty"}
              /\ MonthsWithRows(BalChat) # {}
              /\ history_menu_handler(BalChat, u)
              => /\ view'.kind = "history_menu"
                 /\ {view'.months[i] : i \in 1..Len(view'.months)} = MonthsWithRows(BalChat)
                 /\ \A i, j \in 1..Len(view'.months):
                        i < j => LaterMonth(view'.months[i], view'.months[j])
       /\ \A u \in Users: \A ym \in ReadMonths:
              view'.kind = "history" /\ history_show_handler(BalChat, u, ym)
              => /\ {view'.shown[i] : i \in 1..Len(view'.shown)}
                        = {transactions[i].id :
                              i \in {j \in 1..Len(transactions) :
                                        /\ transactions[j].chat_id = BalChat
                                        /\ year_month(transactions[j].timestamp) = ym}}
                 /\ \A i, j \in 1..Len(view'.shown):
                        i < j => /\ view'.shown[i] # view'.shown[j]
                                 /\ TxById(view'.shown[i]).timestamp
                                        <= TxById(view'.shown[j]).timestamp
    ]_vars

\* a menu of two months of different years
C25_Witness ==
    /\ view.kind = "history_menu"
    /\ Len(view.months) = 2
    /\ view.months[1][1] # view.months[2][1]

----------------------------------------------------------------------------
(* The add-debt dialogue *)

\* the steps of the add-debt conversation, and its end by a cancel in any state
AddDebtOrder ==
    {<<END, "SELECT_CREDITOR">>, <<"SELECT_CREDITOR", "SELECT_DEBTOR">>,
     <<"SELECT_DEBTOR", "GET_AMOUNT">>, <<"GET_AMOUNT", "GET_COMMENT">>,
     <<"GET_COMMENT", END>>}
        \cup {<<st, END>> : st \in {"SELECT_CREDITOR", "SELECT_DEBTOR", "GET_AMOUNT"}}

\* C26: the add-debt conversation of a user in a chat advances only in the order
\* SELECT_CREDITOR, SELECT_DEBTOR, GET_AMOUNT, GET_COMMENT, END (or ends by a
\* cancel); its steps before the last one write nothing; the comment text or
\* /skip that it takes in GET_COMMENT, the INSERT succeeding, ends it and writes
\* exactly one row, of the chat, with the text as comment and "" on /skip.
C26_AddDebtOrder ==
    [][\A chat_id \in Chats: \A user_id \in Senders:
         LET before == State("add_debt", chat_id, user_id)
             after == conv'["add_debt"][<<chat_id, user_id>>]
         IN  /\ before # after => <<before, after>> \in AddDebtOrder
             /\ before # after /\ before # "GET_COMMENT" => transactions' = transactions
             /\ before = "GET_COMMENT"
                => \A is_skip \in BOOLEAN: \A text \in CommentTexts:
                       add_debt_save(chat_id, user_id, is_skip, text, TRUE)
                       => /\ after = END
                          /\ Len(NewRows) = 1
                          /\ NewRows[1].chat_id = chat_id
                          /\ NewRows[1].comment = (IF is_skip THEN "" ELSE text)
    ]_vars

\* C27: the row that a completed add-debt dialogue appends has the creditor, the
\* debtor and the amount that the user chose in that dialogue, whatever other
\* dialogues the same user has in progress in this or another chat.
C27_RowAsChosen ==
    [][\A chat_id \in Chats: \A user_id \in Senders:
         LET ch == chosen["add_debt"][<<chat_id, user_id>>]
         IN  /\ State("add_debt", chat_id, user_id) = "GET_COMMENT"
             /\ conv'["add_debt"][<<chat_id, user_id>>] = END
             /\ Len(NewRows) = 1
             /\ \E is_skip \in BOOLEAN: \E text \in CommentTexts:
                    add_debt_save(chat_id, user_id, is_skip, text, TRUE)
             => /\ {"creditor", "debtor", "amount"} \subseteq DOMAIN ch
                /\ NewRows[1].creditor_id = ch["creditor"]
                /\ NewRows[1].debtor_id = ch["debtor"]
                /\ NewRows[1].amount = ch["amount"]
    ]_vars

\* C28: no row of the table has the same user as creditor and as debtor.
C28_NoSelfDebt ==
    \A i \in 1..Len(transactions):
        transactions[i].creditor_id # transactions[i].debtor_id

----------------------------------------------------------------------------
(* Cancelling: the add-debt and the repay dialogue of one user in one chat.  The   *)
(* two cancel handlers are written once more, identical to end_conversation and   *)
(* cancel_command but for the record of the choices, which a cancelled dialogue   *)
(* keeps here: a dialogue that is at END with a non-empty record was cancelled.   *)

\* end_conversation, the choices of the cancelled dialogue kept on record
end_conversation_recorded(chat_id, user_id) ==
    /\ cancel_handler(chat_id, user_id) # "none"
    /\ conv' = [conv EXCEPT ![cancel_handler(chat_id, user_id)][<<chat_id, user_id>>] = END]
    /\ user_data' = [user_data EXCEPT ![user_id] = <<>>]
    /\ view' = MainMenu
    /\ UNCHANGED <<users, transactions, next_id, now, chosen, started, call, threads, v2>>

\* cancel_command, the choices of the cancelled dialogue kept on record
cancel_command_recorded(chat_id, user_id) ==
    /\ cancel_handler(chat_id, user_id) # "none"
    /\ conv' = [conv EXCEPT ![cancel_handler(chat_id, user_id)][<<chat_id, user_id>>] = END]
    /\ view' = IF Has(user_data[user_id], "dialog_message_id") THEN Nothing ELSE MainMenu
    /\ UNCHANGED <<users, transactions, next_id, now, user_data, chosen, started, call, threads, v2>>

NextCancel ==
    \E user_id \in Senders:
        \/ add_debt_start(BalChat, user_id)
        \/ repay_start(BalChat, user_id)
        \/ \E uid \in Users: add_debt_select_creditor(BalChat, user_id, uid)
        \/ \E uid \in Users: add_debt_select_debtor(BalChat, user_id, uid)
        \/ \E uid \in Users: repay_select_debtor(BalChat, user_id, uid)
        \/ \E uid \in Users: repay_select_creditor(BalChat, user_id, uid)
        \/ \E text \in AmountTexts: add_debt_get_amount(BalChat, user_id, text)
        \/ \E is_skip \in BOOLEAN, text \in CommentTexts, db_ok \in BOOLEAN:
               add_debt_save(BalChat, user_id, is_skip, text, db_ok)
        \/ \E text \in AmountTexts, db_ok \in BOOLEAN:
               repay_save(BalChat, user_id, text, db_ok)
        \/ end_conversation_recorded(BalChat, user_id)
        \/ cancel_command_recorded(BalChat, user_id)

SpecCancel == InitStored /\ [][NextCancel]_vars

\* the value that a dialogue with the choices ch put under a key of user_data
Entered(h, ch, field) ==
    LET what == IF h = "add_debt"
                THEN (IF field = "creditor_id" THEN "creditor" ELSE "debtor")
                ELSE (IF field = "creditor_id" THEN "receiver" ELSE "payer")
    IN  IF what \in DOMAIN ch THEN {ch[what]} ELSE {}

\* the dialogue h of the user was cancelled after a choice was made in it
Cancelled(h, chat_id, user_id) ==
    /\ State(h, chat_id, user_id) = END
    /\ chosen[h][<<chat_id, user_id>>] # <<>>

\* the row has, as the party read from the key field of user_data, a value that
\* the cancelled dialogue h2 entered and the recording dialogue h did not
FromCancelled(row_value, h, h2, chat_id, user_id, field) ==
    /\ Cancelled(h2, chat_id, user_id)
    /\ {row_value} = Entered(h2, chosen[h2][<<chat_id, user_id>>], field)
    /\ {row_value} # Entered(h, chosen[h][<<chat_id, user_id>>], field)

\* C29: a cancel (button or /cancel) ends the conversation that takes it and
\* writes no row; and no row recorded later has a party that was entered in a
\* dialogue cancelled before and not in the dialogue that records the row.
C29_CancelDiscards ==
    [][\A user_id \in Senders:
         /\ ( \/ end_conversation_recorded(BalChat, user_id)
              \/ cancel_command_recorded(BalChat, user_id) )
            => /\ transactions' = transactions
               /\ conv'[cancel_handler(BalChat, user_id)][<<BalChat, user_id>>] = END
         /\ Len(NewRows) = 1
            => LET h == IF NewRows[1].comment = RepaySentinel THEN "repay" ELSE "add_debt"
                   h2 == IF h = "repay" THEN "add_debt" ELSE "repay"
                   \* repay_save writes debtor_id as the creditor of the row
                   from_creditor_id == IF h = "repay" THEN NewRows[1].debtor_id
                                                      ELSE NewRows[1].creditor_id
                   from_debtor_id == IF h = "repay" THEN NewRows[1].creditor_id
                                                    ELSE NewRows[1].debtor_id
               IN  /\ ~FromCancelled(from_creditor_id, h, h2, BalChat, user_id, "creditor_id")
                   /\ ~FromCancelled(from_debtor_id, h, h2, BalChat, user_id, "debtor_id")
    ]_vars

----------------------------------------------------------------------------
(* Starting a dialogue: two users, the first group with its three members and a   *)
(* second group in which nobody is registered yet.                                *)

NextStart ==
    \E chat_id \in Chats: \E user_id \in ConcurrentSenders:
        \/ add_debt_start(chat_id, user_id)
        \/ repay_start(chat_id, user_id)
        \/ split_start(chat_id, user_id)
        \/ \E uid \in Users: split_select_payer(chat_id, user_id, uid)
        \/ \E text \in AmountTexts: split_get_amount(chat_id, user_id, text)
        \/ \E is_skip \in BOOLEAN, text \in CommentTexts:
               split_save(chat_id, user_id, is_skip, text)
        \/ end_conversation(chat_id, user_id)

SpecStart == Init /\ [][NextStart]_vars

\* the step is the start step of one of the three recording dialogues
StartStep(chat_id, user_id) ==
    \/ add_debt_start(chat_id, user_id)
    \/ repay_start(chat_id, user_id)
    \/ split_start(chat_id, user_id)

\* the step started no conversation and recorded nothing
NothingStarted == conv' = conv /\ transactions' = transactions

\* C30 as stated: a start step in a group that has fewer than two registered
\* members when the button is pressed starts no conversation and records nothing.
C30_StartNeedsTwoRegistered ==
    [][\A chat_id \in Chats: \A user_id \in ConcurrentSenders:
         /\ Cardinality(get_group_members(chat_id)) < 2
         /\ view' = Prompt
         => ~StartStep(chat_id, user_id)
    ]_vars

\* C30, amended: the members are counted at the check of the start step, that is
\* with the sender included for add-debt and split (which register the sender
\* first) and as stored for repay; with fewer than two the step shows the warning,
\* starts no conversation and records nothing.  No split conversation is open
\* in a group with fewer than two members, so split_save never finds fewer.
C30_StartNeedsTwoMembers ==
    [][\A chat_id \in Chats: \A user_id \in ConcurrentSenders:
         /\ /\ Cardinality(get_group_members(chat_id) \cup {user_id}) < 2
            /\ add_debt_start(chat_id, user_id) \/ split_start(chat_id, user_id)
            => NothingStarted /\ view' = MembersWarning
         /\ /\ Cardinality(get_group_members(chat_id)) < 2
            /\ repay_start(chat_id, user_id)
            => NothingStarted /\ view' = MembersWarning
         /\ State("split", chat_id, user_id) # END
            => Cardinality(get_group_members(chat_id)) >= 2
    ]_vars

\* the warning is shown in the second group, in which only the sender of an
\* earlier add-debt or split request is registered
C30_Witness ==
    /\ view = MembersWarning
    /\ Cardinality(get_group_members(OtherChat)) = 1
    /\ \A key \in Keys: key[1] = OtherChat => State("add_debt", key[1], key[2]) = END

----------------------------------------------------------------------------
(* The ping thread beside a handler.  Both threads call execute of the one        *)
(* Database object and so share self.conn.  threads.conn is the connection that   *)
(* self.conn names, alive the connections that the server still serves, closed    *)
(* those on which psycopg2 has seen the loss, pending[c] the rows inserted on c    *)
(* and not committed.  A pass of execute is taken statement by statement: the     *)
(* check of self.conn with the cursor, cur.execute, self.conn.commit(), the       *)
(* except clause.                                                                 *)

Threads == {"handler", "ping"}

\* self.conn = psycopg2.connect(...): a new connection, when the server accepts
_connect(th) == [th EXCEPT !.conn = @ + 1, !.alive = @ \cup {th.conn + 1}]

\* a thread enters execute: for i in range(retries)
enter_execute(t, q) ==
    [threads EXCEPT ![t] = [pc |-> "check", i |-> 0, q |-> q, cur |-> 0]]

\* db.add_transaction called by a handler: the timestamp is read, execute entered
handler_add_transaction(c_id, d_id) ==
    /\ threads.handler.pc \in {"idle", "returned", "raised"}
    /\ threads.calls < MaxCalls
    /\ now' = now + 1
    /\ threads' = [enter_execute("handler",
                       [op |-> "add_transaction", chat_id |-> BalChat, c_id |-> c_id,
                        d_id |-> d_id, amount |-> Fin(40000), comment |-> "",
                        timestamp |-> now + 1])
                   EXCEPT !.calls = @ + 1]
    /\ UNCHANGED <<users, transactions, next_id, conv, user_data, chosen, started, view, call, v2>>

\* ping_database: db.execute("SELECT 1") of one round of the loop
ping_database ==
    /\ threads.ping.pc = "idle"
    /\ threads.pings < MaxPings
    /\ threads' = [enter_execute("ping", [op |-> "select_1"]) EXCEPT !.pings = @ + 1]
    /\ UNCHANGED <<users, transactions, next_id, now, conv, user_data, chosen, started, view,
                   call, v2>>

\* if self.conn is None or self.conn.closed: self._connect(); with self.conn.cursor()
check_connection(t, ok) ==
    /\ threads[t].pc = "check"
    /\ threads' =
           IF threads.conn \in threads.closed
           THEN IF ok /\ threads.conn < MaxConns
                THEN [_connect(threads) EXCEPT ![t].pc = "execute", ![t].cur = threads.conn + 1]
                ELSE [threads EXCEPT ![t].pc = "except"]
           ELSE [threads EXCEPT ![t].pc = "execute", ![t].cur = threads.conn]
    /\ UNCHANGED <<users, transactions, next_id, now, conv, user_data, chosen, started, view,
                   call, v2>>

\* cur.execute(query, params) on the connection of the cursor
cursor_execute(t) ==
    /\ threads[t].pc = "execute"
    /\ LET th == threads[t]
       IN  IF th.cur \notin threads.alive
           THEN /\ threads' = [threads EXCEPT ![t].pc = "except", !.closed = @ \cup {th.cur}]
                /\ UNCHANGED next_id
           ELSE IF th.q.op = "add_transaction"
           THEN /\ threads' = [threads EXCEPT ![t].pc = "commit",
                                   !.pending[th.cur] =
                                       Append(@, Row(next_id, th.q.chat_id, th.q.c_id, th.q.d_id,
                                                     th.q.amount, th.q.comment, th.q.timestamp))]
                /\ next_id' = next_id + 1
           ELSE /\ threads' = [threads EXCEPT ![t].pc = "commit"]
                /\ UNCHANGED next_id
    /\ UNCHANGED <<users, transactions, now, conv, user_data, chosen, started, view, call, v2>>

\* self.conn.commit(): the connection that self.conn names now, then the return
connection_commit(t) ==
    /\ threads[t].pc = "commit"
    /\ IF threads.conn \notin threads.alive
       THEN /\ threads' = [threads EXCEPT ![t].pc = "except", !.closed = @ \cup {threads.conn}]
            /\ UNCHANGED transactions
       ELSE /\ transactions' = transactions \o threads.pending[threads.conn]
            /\ threads' = [threads EXCEPT ![t].pc = "returned", !.pending[threads.conn] = <<>>]
    /\ UNCHANGED <<users, next_id, now, conv, user_data, chosen, started, view, call, v2>>

\* except (InterfaceError, OperationalError): self._connect(), then the next pass
\* or the raise after the loop; an error of _connect() leaves execute
except_reconnect(t, ok) ==
    /\ threads[t].pc = "except"
    /\ threads' =
           IF ~(ok /\ threads.conn < MaxConns)
           THEN [threads EXCEPT ![t].pc = "raised"]
           ELSE IF more_attempts(threads[t].i + 1)
           THEN [_connect(threads) EXCEPT ![t].pc = "check", ![t].i = @ + 1]
           ELSE [_connect(threads) EXCEPT ![t].pc = "raised"]
    /\ UNCHANGED <<users, transactions, next_id, now, conv, user_data, chosen, started, view,
                   call, v2>>

\* ping_database after its execute: the log line, or except Exception with
\* db._connect(); then time.sleep(600)
ping_sleep(ok) ==
    /\ threads.ping.pc \in {"returned", "raised"}
    /\ threads' =
           IF threads.ping.pc = "raised" /\ ok /\ threads.conn < MaxConns
           THEN [_connect(threads) EXCEPT !.ping = [pc |-> "idle"]]
           ELSE [threads EXCEPT !.ping = [pc |-> "idle"]]
    /\ UNCHANGED <<users, transactions, next_id, now, conv, user_data, chosen, started, view,
                   call, v2>>

\* the server, or the network, drops a connection: what was not committed on it
\* is rolled back
connection_lost(c) ==
    /\ c \in threads.alive
    /\ threads' = [threads EXCEPT !.alive = @ \ {c}, !.pending[c] = <<>>]
    /\ UNCHANGED <<users, transactions, next_id, now, conv, user_data, chosen, started, view,
                   call, v2>>

PingSteps ==
    \/ ping_database
    \/ \E ok \in BOOLEAN: check_connection("ping", ok)
    \/ cursor_execute("ping")
    \/ connection_commit("ping")
    \/ \E ok \in BOOLEAN: except_reconnect("ping", ok)
    \/ \E ok \in BOOLEAN: ping_sleep(ok)

NextPing ==
    \/ \E c_id \in Users: \E d_id \in Users \ {c_id}: handler_add_transaction(c_id, d_id)
    \/ \E ok \in BOOLEAN: check_connection("handler", ok)
    \/ cursor_execute("handler")
    \/ connection_commit("handler")
    \/ \E ok \in BOOLEAN: except_reconnect("handler", ok)
    \/ \E c \in 1..MaxConns: connection_lost(c)
    \/ PingSteps

SpecPing == Init /\ [][NextPing]_vars

\* C31: no step of the ping thread changes the users table or adds a row other
\* than one that a handler inserted, and when add_transaction has returned to the
\* handler, the row of that call is in the table, also when the ping thread has
\* replaced the shared connection during the call.
C31_PingHarmless ==
    /\ users = EmptyLedger.users
    /\ threads.handler.pc = "returned"
       => \E i \in 1..Len(transactions):
              transactions[i].timestamp = threads.handler.q.timestamp

----------------------------------------------------------------------------
(* The order of the log.  The table holds up to MaxRows rows of the first group, *)
(* written by earlier runs, and the balance is requested.                        *)

OrderAmounts == {Fin(1), Fin(40000), Fin(2 ^ MantissaBits)}

\* the rows a log can hold: debts between members 1 and 2, either way
OrderRows == {[creditor_id |-> p[1], debtor_id |-> p[2], amount |-> a] :
                 p \in {<<1, 2>>, <<2, 1>>}, a \in OrderAmounts}

\* the log in which the rows of choice were recorded in this order, one per tick
\* of the clock, the last at time 0
LogOf(choice) ==
    [i \in 1..Len(choice) |->
        Row(i, BalChat, choice[i].creditor_id, choice[i].debtor_id, choice[i].amount, "",
            i - Len(choice))]

InitOrder ==
    \E n \in 0..MaxRows: \E choice \in [1..n -> OrderRows]:
        Start([users |-> EmptyLedger.users, transactions |-> LogOf(choice)])

NextOrder ==
    \E user_id \in Users:
        \/ status_handler(BalChat, user_id)
        \/ start_menu_command(BalChat, user_id)

SpecOrder == InitOrder /\ [][NextOrder]_vars

\* C32: the mapping that calculate_balances returns for the log is the one it
\* returns for every log that holds the same (creditor, debtor, amount) rows
\* recorded in another order.
C32_OrderIndependent ==
    LET rows == [i \in 1..Len(transactions) |->
                    [creditor_id |-> transactions[i].creditor_id,
                     debtor_id |-> transactions[i].debtor_id,
                     amount |-> transactions[i].amount]]
    IN  view.kind = "status"
        => \A order \in Orders(1..Len(rows)):
               balances_of(LogOf([i \in 1..Len(rows) |-> rows[order[i]]])) = view.net_debts

----------------------------------------------------------------------------
(* The lines of the history: the add-debt and the repay dialogue of one group, *)
(* with comments that include the text of the sentinel, and the monthly view.  *)

HistoryComments == CommentTexts \cup {RepaySentinel}

NextLines ==
    \/ NextHistory
    \/ \E user_id \in Senders:
           \/ add_debt_start(BalChat, user_id)
           \/ \E uid \in Users: add_debt_select_creditor(BalChat, user_id, uid)
           \/ \E uid \in Users: add_debt_select_debtor(BalChat, user_id, uid)
           \/ \E text \in AmountTexts: add_debt_get_amount(BalChat, user_id, text)
           \/ \E is_skip \in BOOLEAN, text \in HistoryComments, db_ok \in BOOLEAN:
                  add_debt_save(BalChat, user_id, is_skip, text, db_ok)

SpecLines == InitStored /\ [][NextLines]_vars

\* the step completed the dialogue h of the user and recorded one row
Recorded(h, last_state, user_id) ==
    /\ State(h, BalChat, user_id) = last_state
    /\ conv'[h][<<BalChat, user_id>>] = END
    /\ Len(NewRows) = 1

\* C33: the history renders the row that a repay dialogue recorded as a
\* repayment line, and the row that an add-debt dialogue recorded as a loan line,
\* whatever comment the user entered.
C33_LineByDialogue ==
    [][\A user_id \in Senders:
         /\ Recorded("repay", "REPAY_GET_AMOUNT", user_id)
            => history_line(NewRows[1], BalChat).verb = "repaid"
         /\ Recorded("add_debt", "GET_COMMENT", user_id)
            => history_line(NewRows[1], BalChat).verb = "borrowed"
    ]_vars

----------------------------------------------------------------------------
(* debt_bot_v2.py: calculate_balances, the greedy matching of the members' *)
(* balances.  The loop is followed iteration by iteration.                 *)

\* abs(a)
FAbs(a) ==
    IF a.k = "fin" THEN Fin(IF a.v < 0 THEN 0 - a.v ELSE a.v)
    ELSE IF a.k = "ninf" THEN Inf
    ELSE a

\* min(a, b): b when b < a, else a
FMin(a, b) == IF FGt(a, b) THEN b ELSE a

\* variant: the debtor's balance is left as it was
balances_credit_only(bal, c_id, d_id, amount) ==
    Put(bal, c_id, FAdd(GetOrZero(bal, c_id), amount))

\* balances[c_id] += amount; balances[d_id] -= amount on a defaultdict(float)
balances_add(bal, c_id, d_id, amount) ==
    LET credited == Put(bal, c_id, FAdd(GetOrZero(bal, c_id), amount))
    IN  Put(credited, d_id, FSub(GetOrZero(credited, d_id), amount))

\* the loop over db.get_all_transactions(chat_id)
RECURSIVE balances_v2(_, _)
balances_v2(rows, bal) ==
    IF rows = <<>> THEN bal
    ELSE balances_v2(Tail(rows),
             balances_add(bal, Head(rows).creditor_id, Head(rows).debtor_id,
                          Head(rows).amount))

\* [u for u in users if balances[u] < -0.01]
debtors(s) == {u \in s.users : FGt(Fin(0 - MatchThreshold), GetOrZero(s.balances, u))}

\* [u for u in users if balances[u] > 0.01]
creditors(s) == {u \in s.users : FGt(GetOrZero(s.balances, u), Fin(MatchThreshold))}

\* debtors[0] after sorted(..., key=balances): a member of the least balance; among
\* equal balances the sort keeps the order of the SELECT, which has no ORDER BY
first_debtors(s) ==
    {d \in debtors(s) : \A w \in debtors(s) : ~FGt(s.balances[d], s.balances[w])}

\* creditors[0] after sorted(..., key=balances, reverse=True)
first_creditors(s) ==
    {c \in creditors(s) : \A w \in creditors(s) : ~FGt(s.balances[w], s.balances[c])}

\* one iteration of the while loop with d, c = debtors[0], creditors[0]
iteration(s, d, c) ==
    LET amount == FMin(FAbs(s.balances[d]), s.balances[c])
        raised == Put(s.balances, d, FAdd(s.balances[d], amount))
    IN  [s EXCEPT !.net_debts = Put(@, <<d, c>>, FAdd(GetOrZero(@, <<d, c>>), amount)),
                  !.balances = Put(raised, c, FSub(raised[c], amount)),
                  !.iterations = @ + 1,
                  !.d = d,
                  !.c = c]

\* the state of calculate_balances when it reaches `while True`
loop_entry(chat_id, rows, members) ==
    [pc |-> "loop", chat_id |-> chat_id, users |-> members,
     balances |-> balances_v2(rows, <<>>), net_debts |-> <<>>, iterations |-> 0,
     d |-> 0, c |-> 0]

\* SELECT ... FROM transactions WHERE chat_id=? ORDER BY timestamp ASC (sqlite)
get_all_transactions_v2(chat_id) ==
    OrderByTimestamp(SelectSeq(v2.transactions, LAMBDA r: r.chat_id = chat_id))

V2Frame == UNCHANGED <<users, transactions, next_id, now, conv, user_data, chosen, started,
                       view, call, threads>>

\* Database.add_transaction of debt_bot_v2.py, as the last step of a dialogue
add_transaction_v2(chat_id, c_id, d_id, amount, comment) ==
    /\ v2.loop.pc # "loop"
    /\ Len(v2.transactions) < MaxLogV2
    /\ v2' = [v2 EXCEPT
                !.transactions = insert_transaction(@, Len(@) + 1, chat_id, c_id, d_id,
                                                    amount, comment, v2.now + 1),
                !.now = @ + 1,
                !.view = MainMenu]
    /\ V2Frame

\* status_handler of debt_bot_v2.py up to the loop of calculate_balances: group_only
\* registers the sender, the balances of the log are summed
status_handler_v2(chat_id, user_id) ==
    /\ v2.loop.pc # "loop"
    /\ LET registered == register_user(v2.users, user_id, chat_id)
       IN  v2' = [v2 EXCEPT
                    !.users = registered,
                    !.loop = loop_entry(chat_id, get_all_transactions_v2(chat_id),
                                        members_of(registered, chat_id))]
    /\ V2Frame

\* an iteration of the loop
loop_iteration(d, c) ==
    /\ v2.loop.pc = "loop"
    /\ d \in first_debtors(v2.loop)
    /\ c \in first_creditors(v2.loop)
    /\ v2' = [v2 EXCEPT !.loop = iteration(@, d, c)]
    /\ V2Frame

\* if not debtors or not creditors: break; the handler shows what was returned
loop_break ==
    /\ v2.loop.pc = "loop"
    /\ debtors(v2.loop) = {} \/ creditors(v2.loop) = {}
    /\ v2' = [v2 EXCEPT !.loop.pc = "returned",
                        !.view = StatusView(v2.loop.chat_id, v2.loop.net_debts)]
    /\ V2Frame

GreedyAmounts == {Fin(40000), Fin(100000), Inf}

LoopStep ==
    \/ \E d \in Users, c \in Users: loop_iteration(d, c)
    \/ loop_break

\* the parties of a row are picked from the buttons of the registered members
NextGreedy ==
    \/ \E c_id \in members_of(v2.users, BalChat):
           \E d_id \in members_of(v2.users, BalChat) \ {c_id}: \E amount \in GreedyAmounts:
               add_transaction_v2(BalChat, c_id, d_id, amount, "")
    \/ \E user_id \in Users: status_handler_v2(BalChat, user_id)
    \/ LoopStep

\* debt_bot_v2.py starts on a new database file; the members register by asking
\* for the balance
SpecGreedy == Init /\ [][NextGreedy]_vars

\* the balance report on the screen is the greedy matching of the present log
ReportShown == v2.loop.pc = "returned" /\ v2.view.kind = "status"

\* the log holds the debts (creditor 1, debtor 2, 100) and (creditor 2, debtor 3, 40)
ChainLog ==
    LET rows == get_all_transactions_v2(BalChat)
    IN  /\ Len(rows) = 2
        /\ <<rows[1].creditor_id, rows[1].debtor_id, rows[1].amount>> = <<1, 2, Fin(100000)>>
        /\ <<rows[2].creditor_id, rows[2].debtor_id, rows[2].amount>> = <<2, 3, Fin(40000)>>

\* a row of the log is a debt between the two members, either way
Transacted(rows, a, b) ==
    \E i \in 1..Len(rows): {rows[i].creditor_id, rows[i].debtor_id} = {a, b}

\* C34: for the log of the debts (creditor 1, debtor 2, 100) and (creditor 2,
\* debtor 3, 40) the bilateral netting of main.py gives {2 owes 1: 100, 3 owes 2: 40},
\* the greedy matching of debt_bot_v2.py gives another mapping, and that mapping
\* holds a debt between two members who have no row in common.
C34_GreedyDiffers ==
    LET rows == get_all_transactions_v2(BalChat)
    IN  ReportShown /\ ChainLog /\ v2.loop.users = Users
        => /\ balances_of(rows) = (<<2, 1>> :> Fin(100000) @@ <<3, 2>> :> Fin(40000))
           /\ v2.view.net_debts # balances_of(rows)
           /\ \E p \in DOMAIN v2.view.net_debts: ~Transacted(rows, p[1], p[2])

C34_Witness ==
    /\ ReportShown /\ ChainLog /\ v2.loop.users = Users
    /\ v2.view.net_debts = (<<2, 1>> :> Fin(60000) @@ <<3, 1>> :> Fin(40000))

\* C35: every iteration of the matching loop leaves the balance of the chosen
\* debtor or of the chosen creditor at zero, and the loop has made fewer
\* iterations than the chat has members (so that it ends).
C35_IterationSettles ==
    [][\A d \in Users, c \in Users:
         v2.loop.pc = "loop" /\ loop_iteration(d, c)
         => /\ v2'.loop.balances[d] = Fin(0) \/ v2'.loop.balances[c] = Fin(0)
            /\ v2'.loop.iterations < Cardinality(v2.loop.users)
    ]_vars

----------------------------------------------------------------------------
(* debt_bot_v2.py: the add-debt and the repay dialogue.  The conversations   *)
(* are created with per_user=False: one state per chat, whoever sends the    *)
(* update; context.user_data is the store of the user who sent it.           *)

SendersV2 == {1, 2}
AmountTextsV2 == {"abc", "100,0"}

\* the conversation that takes a user button: the first, in the order of
\* add_handler, that waits for one
button_handler_v2(chat_id) ==
    IF v2.conv["add_debt"][chat_id] \in {"SELECT_CREDITOR", "SELECT_DEBTOR"} THEN "add_debt"
    ELSE IF v2.conv["repay"][chat_id] \in {"REPAY_SELECT_DEBTOR", "REPAY_SELECT_CREDITOR"}
    THEN "repay"
    ELSE "none"

\* the conversation that takes a text message
text_handler_v2(chat_id) ==
    IF v2.conv["add_debt"][chat_id] \in {"GET_AMOUNT", "GET_COMMENT"} THEN "add_debt"
    ELSE IF v2.conv["repay"][chat_id] = "REPAY_GET_AMOUNT" THEN "repay"
    ELSE "none"

\* user_data.pop(k, None)
PopKey(ud, k) == [x \in DOMAIN ud \ {k} |-> ud[x]]

\* the entry point of a dialogue (allow_reentry=True: in every state): group_only
\* registers the sender, the message id is stored, the members are offered
dialog_start_v2(h, first_state, chat_id, user_id) ==
    /\ v2.loop.pc # "loop"
    /\ v2.started < MaxDialogs
    /\ v2' = [v2 EXCEPT
                !.started = @ + 1,
                !.users = register_user(@, user_id, chat_id),
                !.user_data[user_id] = Put(@, "prompt_msg_id", "msg"),
                !.conv[h][chat_id] = first_state,
                !.chosen[h][chat_id] = <<>>,
                !.view = Prompt]
    /\ V2Frame

add_debt_start_v2(chat_id, user_id) ==
    dialog_start_v2("add_debt", "SELECT_CREDITOR", chat_id, user_id)

repay_start_v2(chat_id, user_id) ==
    dialog_start_v2("repay", "REPAY_SELECT_DEBTOR", chat_id, user_id)

\* context.user_data[field] = int(query.data.split('_')[1]) of the sender
select_step_v2(h, from, to, field, chat_id, user_id, uid) ==
    /\ v2.loop.pc # "loop"
    /\ v2.conv[h][chat_id] = from
    /\ button_handler_v2(chat_id) = h
    /\ uid \in members_of(v2.users, chat_id)
    /\ v2' = [v2 EXCEPT
                !.user_data[user_id] = Put(@, field, uid),
                !.conv[h][chat_id] = to,
                !.chosen[h][chat_id] = Put(@, field, uid),
                !.view = Prompt]
    /\ V2Frame

add_debt_select_creditor_v2(chat_id, user_id, uid) ==
    select_step_v2("add_debt", "SELECT_CREDITOR", "SELECT_DEBTOR", "creditor_id",
                   chat_id, user_id, uid)

add_debt_select_debtor_v2(chat_id, user_id, uid) ==
    select_step_v2("add_debt", "SELECT_DEBTOR", "GET_AMOUNT", "debtor_id",
                   chat_id, user_id, uid)

\* "who returns the debt?": the payer is stored under debtor_id
repay_select_debtor_v2(chat_id, user_id, uid) ==
    select_step_v2("repay", "REPAY_SELECT_DEBTOR", "REPAY_SELECT_CREDITOR", "debtor_id",
                   chat_id, user_id, uid)

\* "to whom?": the receiver is stored under creditor_id
repay_select_creditor_v2(chat_id, user_id, uid) ==
    select_step_v2("repay", "REPAY_SELECT_CREDITOR", "REPAY_GET_AMOUNT", "creditor_id",
                   chat_id, user_id, uid)

\* context.user_data['amount'] = float(text.replace(',', '.')), no range check
add_debt_get_amount_v2(chat_id, user_id, text) ==
    /\ v2.loop.pc # "loop"
    /\ v2.conv["add_debt"][chat_id] = "GET_AMOUNT"
    /\ IF parse_float(text) = ValueError
       THEN v2' = [v2 EXCEPT !.view = NumberError]
       ELSE v2' = [v2 EXCEPT
                     !.user_data[user_id] = Put(@, "amount", parse_float(text)),
                     !.conv["add_debt"][chat_id] = "GET_COMMENT",
                     !.chosen["add_debt"][chat_id] = Put(@, "amount", parse_float(text)),
                     !.view = Prompt]
    /\ V2Frame

\* the arguments db.add_transaction gets from the sender's user_data
final_row(ud, amount) ==
    [creditor_id |-> ud["creditor_id"], debtor_id |-> ud["debtor_id"], amount |-> amount]

\* process_final_step: the message id is popped, db_action() reads the parties from
\* the sender's user_data (KeyError when one is missing: the handler raises and the
\* conversation keeps its state), the row is inserted and the dialogue ends.
\* user_data is not cleared.
process_final_step(h, keys, chat_id, user_id, row, comment) ==
    IF \A k \in keys: Has(v2.user_data[user_id], k)
    THEN /\ Len(v2.transactions) < MaxLogV2
         /\ v2' = [v2 EXCEPT
                     !.user_data[user_id] = PopKey(@, "prompt_msg_id"),
                     !.transactions =
                         insert_transaction(@, Len(@) + 1, chat_id, row.creditor_id,
                                            row.debtor_id, row.amount, comment, v2.now + 1),
                     !.now = @ + 1,
                     !.conv[h][chat_id] = END,
                     !.view = MainMenu]
    ELSE v2' = [v2 EXCEPT
                  !.user_data[user_id] = PopKey(@, "prompt_msg_id"),
                  !.view = Failed]

add_debt_save_v2(chat_id, user_id, is_skip, text) ==
    /\ v2.loop.pc # "loop"
    /\ v2.conv["add_debt"][chat_id] = "GET_COMMENT"
    /\ LET ud == v2.user_data[user_id]
           keys == {"creditor_id", "debtor_id", "amount"}
       IN  process_final_step("add_debt", keys, chat_id, user_id,
               IF \A k \in keys: Has(ud, k) THEN final_row(ud, ud["amount"]) ELSE <<>>,
               IF is_skip THEN "" ELSE text)
    /\ V2Frame

repay_save_v2(chat_id, user_id, text) ==
    /\ v2.loop.pc # "loop"
    /\ text_handler_v2(chat_id) = "repay"
    /\ IF parse_float(text) = ValueError
       THEN v2' = [v2 EXCEPT !.view = NumberError]
       ELSE LET ud == v2.user_data[user_id]
                keys == {"creditor_id", "debtor_id"}
            IN  process_final_step("repay", keys, chat_id, user_id,
                    IF \A k \in keys: Has(ud, k) THEN final_row(ud, parse_float(text))
                    ELSE <<>>,
                    RepaySentinel)
    /\ V2Frame

\* calculate_balances as a function of the log and the members: every mapping the
\* loop can return
RECURSIVE matching_loop(_)
matching_loop(s) ==
    IF debtors(s) = {} \/ creditors(s) = {} THEN {s.net_debts}
    ELSE UNION {matching_loop(iteration(s, d, c)) :
                    d \in first_debtors(s), c \in first_creditors(s)}

calculate_balances_v2(chat_id, rows, members) ==
    matching_loop(loop_entry(chat_id, rows, members))

NextDialogsV2 ==
    \E user_id \in SendersV2:
        \/ add_debt_start_v2(BalChat, user_id)
        \/ repay_start_v2(BalChat, user_id)
        \/ \E uid \in Users:
               \/ add_debt_select_creditor_v2(BalChat, user_id, uid)
               \/ add_debt_select_debtor_v2(BalChat, user_id, uid)
               \/ repay_select_debtor_v2(BalChat, user_id, uid)
               \/ repay_select_creditor_v2(BalChat, user_id, uid)
        \/ \E text \in AmountTextsV2:
               \/ add_debt_get_amount_v2(BalChat, user_id, text)
               \/ repay_save_v2(BalChat, user_id, text)
        \/ \E is_skip \in BOOLEAN, text \in CommentTexts:
               add_debt_save_v2(BalChat, user_id, is_skip, text)

\* the senders pressed a button of the menu in an earlier run: both are registered
InitDialogsV2 ==
    StartWith(EmptyLedger, [users |-> Members(BalChat, SendersV2), transactions |-> <<>>])

SpecDialogsV2 == InitDialogsV2 /\ [][NextDialogsV2]_vars

\* the row that the step added to the log of debt_bot_v2.py
NewRowV2 == v2'.transactions[Len(v2'.transactions)]

RowAdded == Len(v2'.transactions) = Len(v2.transactions) + 1

RowsV2(txs) == OrderByTimestamp(SelectSeq(txs, LAMBDA r: r.chat_id = BalChat))

\* C36: the row that repay_save records has the payer (the member picked at "who
\* returns the debt?") as creditor and the receiver as debtor, and when the report
\* before the repayment was that the payer owes the receiver the repaid amount and
\* nothing else, the report after it holds no debt.
C36_RepaymentSettles ==
    [][\A user_id \in SendersV2, text \in AmountTextsV2:
         /\ v2.conv["repay"][BalChat] = "REPAY_GET_AMOUNT"
         /\ repay_save_v2(BalChat, user_id, text)
         /\ RowAdded
         => LET payer == v2.chosen["repay"][BalChat]["debtor_id"]
                receiver == v2.chosen["repay"][BalChat]["creditor_id"]
                members == members_of(v2.users, BalChat)
            IN  /\ NewRowV2.creditor_id = payer
                /\ NewRowV2.debtor_id = receiver
                /\ calculate_balances_v2(BalChat, RowsV2(v2.transactions), members)
                       = {<<payer, receiver>> :> NewRowV2.amount}
                   => calculate_balances_v2(BalChat, RowsV2(v2'.transactions), members)
                          = {<<>>}
    ]_vars

\* C37: when add_debt_save or repay_save runs, the user_data of the user who sent
\* the update holds the creditor, the debtor and (add-debt) the amount that were
\* chosen in this run of the chat's dialogue, whoever performed the earlier steps.
C37_SaverHoldsChoices ==
    [][\A user_id \in SendersV2:
         /\ /\ v2.conv["add_debt"][BalChat] = "GET_COMMENT"
            /\ \E is_skip \in BOOLEAN, text \in CommentTexts:
                   add_debt_save_v2(BalChat, user_id, is_skip, text)
            => \A k \in {"creditor_id", "debtor_id", "amount"}:
                   /\ Has(v2.user_data[user_id], k)
                   /\ v2.user_data[user_id][k] = v2.chosen["add_debt"][BalChat][k]
         /\ /\ v2.conv["repay"][BalChat] = "REPAY_GET_AMOUNT"
            /\ \E text \in AmountTextsV2:
                   parse_float(text) # ValueError /\ repay_save_v2(BalChat, user_id, text)
            => \A k \in {"creditor_id", "debtor_id"}:
                   /\ Has(v2.user_data[user_id], k)
                   /\ v2.user_data[user_id][k] = v2.chosen["repay"][BalChat][k]
    ]_vars

====
